---- MODULE Spec2Model ----
(***************************************************************************)
(* Model of the suppression-screen request handler                         *)
(* (src/src/lib/consent.ts, lines 64-885): URL normalisation, the SSRF     *)
(* guard, the sequential crawl (homepage, robots.txt, sitemap.xml, extra   *)
(* pages), the rules-based analyzer, the rollup and the response.          *)
(*                                                                         *)
(* Strings are modelled by their structure.  A URL is a record of its      *)
(* components, a hostname is the sequence of its dot-separated labels, a   *)
(* body is the sequence of the markup items it holds (document order),     *)
(* each item carrying the number of characters it stands for.              *)
(***************************************************************************)
EXTENDS Integers, Sequences, FiniteSets, TLC

VARIABLES
    pc,           \* position of the handler: idle, home, robots, sitemap, extras, done
    request,      \* the event: url input and baseline of the JSON body
    originUrl,    \* normalizeToOrigin(urlInput), or NoUrl
    base,         \* new URL(homepage.final_url || homepage.url)
    fetchLog,     \* every fetch in order: the URL handed to fetchWithTimeout, and what came back
    constraints,  \* the constraints array
    homepage,     \* artifacts
    robots_txt,
    sitemap_xml,
    extraUrls,
    extra_pages,
    response,     \* what json(statusCode, body) returned, or NoResponse
    rollup,       \* the rollup applied to given counts and baseline (RollupSpec only)
    scan_date,    \* scanDate: the day the clock shows when the scan starts
    previous,     \* an earlier, completed run of the handler (ReplaySpec only)
    pick,         \* pickPriorityNavPages applied to given links (PickSpec only)
    consent       \* the browser side of the consent module (ConsentSpec only)

vars == <<pc, request, originUrl, base, fetchLog, constraints, homepage,
          robots_txt, sitemap_xml, extraUrls, extra_pages, response, rollup,
          scan_date, previous, pick, consent>>

----------------------------------------------------------------------------
(* Generic helpers *)

Range(s) == {s[i] : i \in 1..Len(s)}

RECURSIVE Dedupe(_)
\* "de-dupe preserving order": keep the first occurrence of each element
Dedupe(s) ==
    IF s = <<>> THEN <<>>
    ELSE LET init == Dedupe(SubSeq(s, 1, Len(s) - 1))
             last == s[Len(s)]
         IN IF last \in Range(init) THEN init ELSE Append(init, last)

\* string | null
NullStr == [isNull |-> TRUE, val |-> <<>>]
Some(s) == [isNull |-> FALSE, val |-> s]
Truthy(x) == ~x.isNull /\ x.val # <<>>     \* !!x for a string | null
OrEmpty(x) == x.val                         \* x || ""

----------------------------------------------------------------------------
(* URLs *)

NoUrl == [scheme |-> "", creds |-> FALSE, host |-> <<>>, path |-> "", query |-> "", hash |-> ""]

Url(scheme, host, path) ==
    [scheme |-> scheme, creds |-> FALSE, host |-> host, path |-> path, query |-> "", hash |-> ""]

\* String.prototype.toLowerCase on the labels the model uses
Lower(label) ==
    CASE label = "LOCALHOST" -> "localhost"
      [] label = "Example"   -> "example"
      [] label = "LOCAL"     -> "local"
      [] OTHER               -> label

LowerHost(host) == [i \in 1..Len(host) |-> Lower(host[i])]

\* URL.origin: scheme and host (the model has no ports)
Origin(u) == <<u.scheme, u.host>>

(* The WHATWG URL parser on the authority of an http(s) URL.  rawHost is    *)
(* the host text as typed: labels, or an IPv6 literal.  An IPv6 literal is  *)
(* only a host inside brackets, and url.hostname keeps the brackets; an     *)
(* unbracketed "::1" parses as an empty host followed by a port and fails.  *)
HostParses(rawHost) ==
    /\ rawHost # <<>>
    /\ rawHost # <<"::1">>
    /\ \A i \in 1..Len(rawHost) : rawHost[i] # ""

Hostname(rawHost) == LowerHost(rawHost)

\* /^https?:\/\//i
HasHttpScheme(scheme) == scheme \in {"http", "https", "HTTP", "HTTPS"}

LowerScheme(scheme) ==
    CASE scheme = "HTTP"  -> "http"
      [] scheme = "HTTPS" -> "https"
      [] OTHER            -> scheme

(* normalizeToOrigin.  The input is the trimmed text, by components:        *)
(* [scheme, creds, host, path, query, hash], scheme "" when none is typed.  *)
(* A text with another scheme ("ftp://h/p") does not match /^https?:\/\//i, *)
(* gets "https://" prepended and parses as host = the scheme word, empty    *)
(* port, path "//h/p".                                                      *)
normalizeToOrigin(in) ==
    LET prefixed == ~HasHttpScheme(in.scheme)
        scheme   == IF prefixed THEN "https" ELSE LowerScheme(in.scheme)
        rawHost  == IF prefixed /\ in.scheme # "" THEN <<in.scheme>> ELSE in.host
        creds    == IF prefixed /\ in.scheme # "" THEN FALSE ELSE in.creds
    IN IF ~HostParses(rawHost) THEN NoUrl
       ELSE IF scheme # "http" /\ scheme # "https" THEN NoUrl
       ELSE [scheme |-> scheme, creds |-> creds, host |-> Hostname(rawHost),
             path |-> "/", query |-> "", hash |-> ""]

blockedHosts == {<<"localhost">>, <<"127", "0", "0", "1">>, <<"0", "0", "0", "0">>, <<"::1">>}

\* host.endsWith("." + tld): a last label tld after at least one other label
EndsWithLabel(host, tld) == Len(host) >= 2 /\ host[Len(host)] = tld

\* basicSsrfGuards: "" when the URL passes, else the error message
basicSsrfGuards(url) ==
    LET host == LowerHost(url.host)
    IN IF url.creds THEN "INVALID_URL: credentials in URL not allowed"
       ELSE IF host \in blockedHosts THEN "INVALID_URL: localhost is not allowed"
       ELSE IF EndsWithLabel(host, "local") \/ EndsWithLabel(host, "internal")
            THEN "INVALID_URL: internal hostnames are not allowed"
       ELSE ""

----------------------------------------------------------------------------
(* Paths: the pathnames the modelled sites use, with what the code reads    *)
(* off them.                                                                *)

priorityKeywords ==
    <<"contact", "about", "services", "service", "pricing", "book", "audit", "diagnostic">>

\* u.pathname.toLowerCase()
PathLower(p) ==
    CASE p = "/About" -> "/about"
      [] OTHER        -> p

\* path.includes(k), for a lower-cased path
PathIncludes(p, k) ==
    CASE p = "/contact"    -> k = "contact"
      [] p = "/about"      -> k = "about"
      [] p = "/services"   -> k \in {"services", "service"}
      [] p = "/service"    -> k = "service"
      [] p = "/pricing"    -> k = "pricing"
      [] p = "/book-audit" -> k \in {"book", "audit"}
      [] OTHER             -> FALSE

\* path.length
PathLen(p) ==
    CASE p = "/"           -> 1
      [] p = "/blog"       -> 5
      [] p = "/team"       -> 5
      [] p = "/about"      -> 6
      [] p = "/About"      -> 6
      [] p = "/contact"    -> 8
      [] p = "/pricing"    -> 8
      [] p = "/service"    -> 8
      [] p = "/services"   -> 9
      [] p = "/file.pdf"   -> 9
      [] p = "/book-audit" -> 11
      [] OTHER             -> 0

\* position of a lower-cased path in alphabetical order (localeCompare)
PathRank(p) ==
    CASE p = "/"           -> 0
      [] p = "/about"      -> 1
      [] p = "/blog"       -> 2
      [] p = "/book-audit" -> 3
      [] p = "/contact"    -> 4
      [] p = "/file.pdf"   -> 5
      [] p = "/pricing"    -> 6
      [] p = "/service"    -> 7
      [] p = "/services"   -> 8
      [] p = "/team"       -> 9
      [] OTHER             -> 10

\* /\.(pdf|jpg|jpeg|png|gif|webp|svg|zip)$/i
IsNonPage(p) == p \in {"/file.pdf"}

----------------------------------------------------------------------------
(* Bodies.  A body is a sequence of items [t, s, u, n]: t the kind of       *)
(* markup, s its text, u the URL reference it carries (href), n the number  *)
(* of characters it stands for.                                             *)
(*   title   <title>s</title>            meta    <meta name="robots" content="s"> *)
(*   canon   <link rel="canonical" href=u>       a   <a href=u>             *)
(*   text    visible text s              comment / script / style           *)
(*   ua, disallow, allow   robots.txt lines      loc   <loc>u</loc>         *)
(*   dots    the "..." that truncate appends     cut   the head of a cut item *)

Item(t, s, n) == [t |-> t, s |-> s, u |-> NoUrl, n |-> n]
Ref(t, u, n) == [t |-> t, s |-> "", u |-> u, n |-> n]

\* an href: scheme "" is a path-absolute reference ("/about")
Rel(path) == Url("", <<>>, path)

RECURSIVE TotalLen(_)
\* s.length
TotalLen(s) == IF s = <<>> THEN 0 ELSE Head(s).n + TotalLen(Tail(s))

RECURSIVE Slice(_, _)
\* s.slice(0, maxChars): an item that straddles the cut leaves its head
Slice(s, maxChars) ==
    IF s = <<>> \/ maxChars <= 0 THEN <<>>
    ELSE IF Head(s).n <= maxChars
         THEN <<Head(s)>> \o Slice(Tail(s), maxChars - Head(s).n)
         ELSE <<Item("cut", "", maxChars)>>

Dots == Item("dots", "...", 3)

truncate(s, maxChars) ==
    IF TotalLen(s) <= maxChars THEN s ELSE Slice(s, maxChars) \o <<Dots>>

RECURSIVE stripScriptsStylesComments(_)
stripScriptsStylesComments(html) ==
    IF html = <<>> THEN <<>>
    ELSE IF Head(html).t \in {"comment", "script", "style"}
         THEN stripScriptsStylesComments(Tail(html))
         ELSE <<Head(html)>> \o stripScriptsStylesComments(Tail(html))

\* s.endsWith("...")
EndsWithDots(s) == s # <<>> /\ s[Len(s)].s = "..."

MAX_HTML_CHARS == 120000
MAX_TEXT_CHARS == 120000
MAX_REDIRECTS == 5

----------------------------------------------------------------------------
(* Headers: a set of <<name, value>> pairs.                                 *)

LowerName(k) ==
    CASE k = "Content-Type" -> "content-type"
      [] k = "X-Robots-Tag" -> "x-robots-tag"
      [] OTHER              -> k

lowerHeaders(h) == {<<LowerName(kv[1]), kv[2]>> : kv \in h}

\* headers[k] || ""
Header(h, k) == IF \E kv \in h : kv[1] = k THEN (CHOOSE kv \in h : kv[1] = k)[2] ELSE ""

isProbablyHtml(contentType) ==
    contentType \in {"text/html", "text/html; charset=utf-8", "application/xhtml+xml"}

\* value.toLowerCase().includes("noindex")
IncludesNoindex(v) == v \in {"noindex", "NOINDEX, nofollow", "noindex,follow"}

----------------------------------------------------------------------------
(* A fetch.  What fetchWithTimeout and res.text() can do is a record:       *)
(*   err        fetch() rejects (network failure, abort by the timer)       *)
(*   status, headers, url (res.url, the URL after redirects)                *)
(*   readErr    res.text() rejects                                          *)
(*   body       the raw body                                                *)
(*   hops       the redirects followed before this response: the request    *)
(*              is made with redirect: "follow" and nothing else, so the    *)
(*              runtime follows a chain to its end (up to its own limit,    *)
(*              beyond which fetch() rejects: NetError); the code never     *)
(*              sees this number                                            *)
(*   headersMs  when fetch() would resolve (status line and headers in),    *)
(*   bodyMs     when res.text() would resolve, both in ms after the call    *)

NetError ==
    [err |-> TRUE, status |-> 0, headers |-> {}, url |-> NoUrl, readErr |-> FALSE, body |-> <<>>,
     hops |-> 0, headersMs |-> 100, bodyMs |-> 200]

NetResponse(status, headers, url, body) ==
    [err |-> FALSE, status |-> status, headers |-> headers, url |-> url, readErr |-> FALSE, body |-> body,
     hops |-> 0, headersMs |-> 100, bodyMs |-> 200]

NetReadError(status, headers, url) ==
    [err |-> FALSE, status |-> status, headers |-> headers, url |-> url, readErr |-> TRUE, body |-> <<>>,
     hops |-> 0, headersMs |-> 100, bodyMs |-> 200]

\* a response whose headers and body arrive at the given times
Slow(r, headersMs, bodyMs) == [r EXCEPT !.headersMs = headersMs, !.bodyMs = bodyMs]

FETCH_TIMEOUT_MS == 12000

(* fetchWithTimeout: the timer set before fetch() aborts the request when   *)
(* it fires before fetch() has resolved; the finally block clears it as     *)
(* soon as fetch() settles, so nothing is armed while the body is read.     *)
fetchWithTimeout(r) ==
    IF r.err \/ r.headersMs >= FETCH_TIMEOUT_MS THEN [r EXCEPT !.err = TRUE] ELSE r

\* the response at the end of a chain of n redirects
Redirected(r, n) == [r EXCEPT !.hops = n]

HasContent(status) == status >= 200 /\ status < 400

\* the catch branch of both fetchers
FailedHtml(url) ==
    [artifact |-> [url |-> url, final_url |-> url, status |-> 0, headers |-> {}, html |-> NullStr],
     constraint |-> "fetch_failed"]

FailedText(url) ==
    [artifact |-> [url |-> url, final_url |-> url, status |-> 0, headers |-> {}, text |-> NullStr],
     constraint |-> "fetch_failed"]

fetchHtmlArtifact(url, res) ==
    LET r == fetchWithTimeout(res) IN
    IF r.err \/ (HasContent(r.status) /\ r.readErr) THEN FailedHtml(url)
    ELSE LET finalUrl == IF r.url = NoUrl THEN url ELSE r.url
             headers  == lowerHeaders(r.headers)
             html     == IF HasContent(r.status)
                         THEN Some(truncate(stripScriptsStylesComments(r.body), MAX_HTML_CHARS))
                         ELSE NullStr
         IN IF ~isProbablyHtml(Header(headers, "content-type"))
            THEN [artifact |-> [url |-> url, final_url |-> finalUrl, status |-> r.status,
                                headers |-> headers, html |-> NullStr],
                  constraint |-> "non_html_homepage_or_page"]
            ELSE [artifact |-> [url |-> url, final_url |-> finalUrl, status |-> r.status,
                                headers |-> headers, html |-> html],
                  constraint |-> ""]

\* mutant: a rejected res.text() is not caught as a failed fetch: the artifact keeps the
\* response's status and headers
fetchTextArtifact_NoBodyCatch(url, res) ==
    LET r == fetchWithTimeout(res) IN
    IF r.err THEN FailedText(url)
    ELSE [artifact |-> [url |-> url, final_url |-> IF r.url = NoUrl THEN url ELSE r.url,
                        status |-> r.status, headers |-> lowerHeaders(r.headers),
                        text |-> IF HasContent(r.status) /\ ~r.readErr
                                 THEN Some(truncate(r.body, MAX_TEXT_CHARS)) ELSE NullStr],
          constraint |-> ""]

fetchTextArtifact(url, res) ==
    LET r == fetchWithTimeout(res) IN
    IF r.err \/ (HasContent(r.status) /\ r.readErr) THEN FailedText(url)
    ELSE LET finalUrl == IF r.url = NoUrl THEN url ELSE r.url
             headers  == lowerHeaders(r.headers)
             text     == IF HasContent(r.status)
                         THEN Some(truncate(r.body, MAX_TEXT_CHARS))
                         ELSE NullStr
         IN [artifact |-> [url |-> url, final_url |-> finalUrl, status |-> r.status,
                           headers |-> headers, text |-> text],
             constraint |-> ""]

----------------------------------------------------------------------------
(* Link extraction and page selection *)

\* new URL(candidate, base) restricted to http(s), fragment cleared; NoUrl for null
makeAbsoluteUrl(candidate, b) ==
    IF candidate.scheme = ""
    THEN [b EXCEPT !.path = candidate.path, !.query = candidate.query, !.hash = ""]
    ELSE IF candidate.scheme \in {"http", "https"} /\ candidate.host # <<>>
         THEN [candidate EXCEPT !.hash = ""]
         ELSE NoUrl

\* mutant: the same-origin filter lets every absolute URL through
sameOrigin_Any(a, b) == TRUE

sameOrigin(a, b) == Origin(a) = Origin(b)

RECURSIVE HomepageHrefs(_, _)
\* the while loop of extractHomepageLinks: the URLs pushed, in document order
HomepageHrefs(html, b) ==
    IF html = <<>> THEN <<>>
    ELSE LET it   == Head(html)
             rest == HomepageHrefs(Tail(html), b)
             abs  == makeAbsoluteUrl(it.u, b)
         IN IF it.t # "a" THEN rest
            ELSE IF it.u.scheme \in {"mailto", "tel", "javascript"} THEN rest
            ELSE IF abs = NoUrl THEN rest
            ELSE IF ~sameOrigin(abs, b) THEN rest
            ELSE IF IsNonPage(PathLower(abs.path)) THEN rest
            ELSE <<abs>> \o rest

extractHomepageLinks(html, b) == Dedupe(HomepageHrefs(html, b))

RECURSIVE SitemapLocs(_, _)
SitemapLocs(xmlText, b) ==
    IF xmlText = <<>> THEN <<>>
    ELSE LET it   == Head(xmlText)
             rest == SitemapLocs(Tail(xmlText), b)
             abs  == makeAbsoluteUrl(it.u, b)
         IN IF it.t # "loc" THEN rest
            ELSE IF abs = NoUrl THEN rest
            ELSE IF ~sameOrigin(abs, b) THEN rest
            ELSE <<abs>> \o rest

extractSitemapLocs(xmlText, b) == Dedupe(SitemapLocs(xmlText, b))

NoKeywordScore == 999

\* the index of the first keyword the lower-cased path includes
Score(u) ==
    LET path == PathLower(u.path)
        hits == {i \in 1..Len(priorityKeywords) : PathIncludes(path, priorityKeywords[i])}
    IN IF hits = {} THEN NoKeywordScore
       ELSE (CHOOSE i \in hits : \A j \in hits : i <= j) - 1

\* the comparator of scored.sort: < 0
ScoredBefore(a, b) ==
    LET pa == PathLower(a.path)
        pb == PathLower(b.path)
    IN IF Score(a) # Score(b) THEN Score(a) < Score(b)
       ELSE IF PathLen(pa) # PathLen(pb) THEN PathLen(pa) < PathLen(pb)
       ELSE PathRank(pa) < PathRank(pb)

RECURSIVE InsertScored(_, _)
\* x placed after every element that does not come after it (a stable sort)
InsertScored(x, sorted) ==
    IF sorted = <<>> THEN <<x>>
    ELSE IF ScoredBefore(x, Head(sorted)) THEN <<x>> \o sorted
    ELSE <<Head(sorted)>> \o InsertScored(x, Tail(sorted))

RECURSIVE SortScored(_)
SortScored(links) ==
    IF links = <<>> THEN <<>>
    ELSE InsertScored(links[Len(links)], SortScored(SubSeq(links, 1, Len(links) - 1)))

RECURSIVE PickLoop(_, _, _, _)
\* the for loop over scored: seen, the root exclusion, the limit
PickLoop(scored, picked, seen, limit) ==
    IF scored = <<>> THEN picked
    ELSE LET u == Head(scored)
         IN IF u \in seen THEN PickLoop(Tail(scored), picked, seen, limit)
            ELSE IF u.path = "/" THEN PickLoop(Tail(scored), picked, seen \cup {u}, limit)
            ELSE IF Len(picked) + 1 >= limit THEN Append(picked, u)
            ELSE PickLoop(Tail(scored), Append(picked, u), seen \cup {u}, limit)

\* mutant: the links are taken in document order, the sort left out
pickPriorityNavPages_Unsorted(links, limit) == PickLoop(links, <<>>, {}, limit)

pickPriorityNavPages(links, limit) == PickLoop(SortScored(links), <<>>, {}, limit)

NavLimit == 3
SitemapLimit == 2

RECURSIVE NonRoot(_)
NonRoot(urls) ==
    IF urls = <<>> THEN <<>>
    ELSE IF Head(urls).path # "/" THEN <<Head(urls)>> \o NonRoot(Tail(urls))
    ELSE NonRoot(Tail(urls))

\* mutant: every non-root location of the sitemap is taken
SitemapPicks_All(sitemap, b) ==
    IF Truthy(sitemap.text) /\ HasContent(sitemap.status)
    THEN NonRoot(extractSitemapLocs(sitemap.text.val, b))
    ELSE <<>>

\* locs.filter((u) => u.pathname !== "/").slice(0, 2), when the sitemap has text
SitemapPicks(sitemap, b) ==
    IF Truthy(sitemap.text) /\ HasContent(sitemap.status)
    THEN LET locs == NonRoot(extractSitemapLocs(sitemap.text.val, b))
         IN SubSeq(locs, 1, IF Len(locs) < SitemapLimit THEN Len(locs) ELSE SitemapLimit)
    ELSE <<>>

\* navPicks.forEach(pushUnique); sitemapPicks.forEach(pushUnique)
ExtraUrls(home, sitemap, b) ==
    Dedupe(pickPriorityNavPages(extractHomepageLinks(OrEmpty(home.html), b), NavLimit)
           \o SitemapPicks(sitemap, b))

----------------------------------------------------------------------------
(* The analyzer *)

\* a literal string of n characters
Lit(s, n) == <<Item("lit", s, n)>>

SnippetMax == 200
FindingMax == 100
WhyMax == 150

RobotsEvidence == Rel("robots.txt")

Finding(key, severity, category, finding, evidenceUrl, snippet, why, verify) ==
    [key |-> key, severity |-> severity, category |-> category, finding |-> finding,
     evidenceUrl |-> evidenceUrl, snippet |-> snippet, why |-> why, verify |-> verify]

\* mutant: add without the has() check
add_Always(rootCauses, f) == Append(rootCauses, f)

\* add: rootCauses is a Map, kept here as the sequence of its values in insertion order
add(rootCauses, f) ==
    IF \E i \in 1..Len(rootCauses) : rootCauses[i].key = f.key THEN rootCauses
    ELSE Append(rootCauses, f)

\* /disallow:\s*\/\s*$/im  and  /user-agent:\s*\*/im
HasDisallowAll(text) == \E i \in 1..Len(text) : text[i].t = "disallow" /\ text[i].s = "/"
HasUserAgentStar(text) == \E i \in 1..Len(text) : text[i].t = "ua" /\ text[i].s = "*"

\* robots.text.match(/User-agent:\s*\*[\s\S]*?Disallow:\s*\/.*/i)?.[0] || the default
RobotsSnippet(text) ==
    LET uaAt == {i \in 1..Len(text) : text[i].t = "ua" /\ text[i].s = "*"}
        from == CHOOSE i \in uaAt : \A j \in uaAt : i <= j
        disAt == {i \in 1..Len(text) : i > from /\ text[i].t = "disallow" /\ text[i].s # ""}
        to == CHOOSE i \in disAt : \A j \in disAt : i <= j
    IN IF uaAt = {} \/ disAt = {} THEN Lit("User-agent: * / Disallow: /", 27)
       ELSE SubSeq(text, from, to)

RobotsRule(robots, rootCauses) ==
    IF Truthy(robots.text) /\ HasDisallowAll(robots.text.val) /\ HasUserAgentStar(robots.text.val)
    THEN add(rootCauses,
             Finding("ROBOTS_DISALLOW_ALL", "P0", "Indexation Kill Switch",
                     Lit("robots.txt appears to disallow all crawling", 43),
                     RobotsEvidence,
                     truncate(RobotsSnippet(robots.text.val), SnippetMax),
                     Lit("If bots can't crawl, pages won't be indexed or refreshed reliably.", 66),
                     Lit("Open /robots.txt and confirm User-agent:* includes Disallow:/", 61)))
    ELSE rootCauses

\* p.final_url || p.url
PageUrl(p) == IF p.final_url = NoUrl THEN p.url ELSE p.final_url

\* header value lengths
HeaderLen(v) ==
    CASE v = "noindex"           -> 7
      [] v = "noindex,follow"    -> 14
      [] v = "NOINDEX, nofollow" -> 17
      [] v = "all"               -> 3
      [] OTHER                   -> 0

XRobotsRule(p, rootCauses) ==
    LET v == Header(p.headers, "x-robots-tag")
    IN IF IncludesNoindex(v)
       THEN add(rootCauses,
                Finding("X_ROBOTS_NOINDEX", "P0", "Indexation Kill Switch",
                        Lit("x-robots-tag noindex present", 28),
                        PageUrl(p),
                        truncate(Lit("x-robots-tag: ", 14) \o <<Item("value", v, HeaderLen(v))>>, SnippetMax),
                        Lit("noindex prevents the page from being indexed.", 45),
                        Lit("Check response headers for x-robots-tag containing noindex.", 59)))
       ELSE rootCauses

\* hLower.includes('name="robots"'): a meta robots tag written with double quotes
HasNameRobots(html) == \E i \in 1..Len(html) : html[i].t = "meta"
\* hLower.includes("noindex"): anywhere in the markup
HasNoindexText(html) == \E i \in 1..Len(html) : IncludesNoindex(html[i].s)

FirstOf(html, t) ==
    LET at == {i \in 1..Len(html) : html[i].t = t}
    IN html[CHOOSE i \in at : \A j \in at : i <= j]

MetaRule(p, rootCauses) ==
    LET html == OrEmpty(p.html)
    IN IF HasNameRobots(html) /\ HasNoindexText(html)
       THEN add(rootCauses,
                Finding("META_ROBOTS_NOINDEX", "P0", "Indexation Kill Switch",
                        Lit("meta robots noindex present", 27),
                        PageUrl(p),
                        truncate(<<FirstOf(html, "meta")>>, SnippetMax),
                        Lit("noindex prevents indexing for the page.", 39),
                        Lit("View page source and locate meta name='robots' containing noindex.", 66)))
       ELSE rootCauses

\* new URL(canonHref, url).hostname
CanonHostname(href, pageUrl) ==
    IF href.scheme = "" THEN pageUrl.host
    ELSE IF href.scheme \in {"http", "https"} THEN LowerHost(href.host)
    ELSE <<>>

CanonicalRule(p, rootCauses) ==
    LET html == OrEmpty(p.html)
        has == \E i \in 1..Len(html) : html[i].t = "canon"
        canon == FirstOf(html, "canon")
    IN IF has /\ canon.u # NoUrl
          /\ CanonHostname(canon.u, PageUrl(p)) # <<>>
          /\ PageUrl(p).host # <<>>
          /\ CanonHostname(canon.u, PageUrl(p)) # PageUrl(p).host
       THEN add(rootCauses,
                Finding("CANONICAL_OFFDOMAIN", "P0", "Indexation Kill Switch",
                        Lit("canonical points to a different domain", 38),
                        PageUrl(p),
                        truncate(<<canon>>, SnippetMax),
                        Lit("Off-domain canonicals can transfer indexing signals away from your site.", 72),
                        Lit("View source and confirm canonical hostname matches the page hostname.", 69)))
       ELSE rootCauses

\* /<title>[\s\S]*?<\/title>/i.test(html)
HasTitle(html) == \E i \in 1..Len(html) : html[i].t = "title"

\* mutant: a missing title rated P1
MissingTitleRule_P1(p, rootCauses) ==
    IF ~HasTitle(OrEmpty(p.html))
    THEN add(rootCauses,
             Finding("MISSING_TITLE", "P1", "Moderate Drag",
                     Lit("missing <title> tag", 19),
                     PageUrl(p),
                     Lit("No <title> found in HTML.", 25),
                     Lit("Titles are a primary relevance + CTR signal; missing titles reduce clarity.", 75),
                     Lit("View source and confirm whether a <title> exists in <head>.", 59)))
    ELSE rootCauses

MissingTitleRule(p, rootCauses) ==
    IF ~HasTitle(OrEmpty(p.html))
    THEN add(rootCauses,
             Finding("MISSING_TITLE", "P2", "Moderate Drag",
                     Lit("missing <title> tag", 19),
                     PageUrl(p),
                     Lit("No <title> found in HTML.", 25),
                     Lit("Titles are a primary relevance + CTR signal; missing titles reduce clarity.", 75),
                     Lit("View source and confirm whether a <title> exists in <head>.", 59)))
    ELSE rootCauses

\* one iteration of "for (const p of pages)"
PageRules(p, rootCauses) ==
    MissingTitleRule(p, CanonicalRule(p, MetaRule(p, XRobotsRule(p, rootCauses))))

RECURSIVE PerPageChecks(_, _)
PerPageChecks(pages, rootCauses) ==
    IF pages = <<>> THEN rootCauses
    ELSE PerPageChecks(Tail(pages), PageRules(Head(pages), rootCauses))

\* the trimmed body of the first <title>, "" when there is none
TitleOf(p) ==
    IF Truthy(p.html) /\ HasTitle(p.html.val) THEN FirstOf(p.html.val, "title").s ELSE ""

\* titles: Map title -> urls, in insertion order: the titled pages, by first occurrence of the title
RECURSIVE TitleOrder(_)
TitleOrder(pages) ==
    IF pages = <<>> THEN <<>>
    ELSE LET init == TitleOrder(SubSeq(pages, 1, Len(pages) - 1))
             t == TitleOf(pages[Len(pages)])
         IN IF t = "" \/ t \in Range(init) THEN init ELSE Append(init, t)

RECURSIVE UrlsWithTitle(_, _)
UrlsWithTitle(pages, t) ==
    IF pages = <<>> THEN <<>>
    ELSE IF TitleOf(Head(pages)) = t THEN <<PageUrl(Head(pages))>> \o UrlsWithTitle(Tail(pages), t)
    ELSE UrlsWithTitle(Tail(pages), t)

\* title length, with the tags around it
TitleLen(t) ==
    CASE t = "Home"  -> 4
      [] t = "About" -> 5
      [] t = "Team"  -> 4
      [] OTHER       -> 0

DupTitlesRule(pages, rootCauses) ==
    LET order == TitleOrder(pages)
        dup == {i \in 1..Len(order) : Len(UrlsWithTitle(pages, order[i])) >= 2}
        title == order[CHOOSE i \in dup : \A j \in dup : i <= j]
    IN IF dup = {} THEN rootCauses
       ELSE add(rootCauses,
                Finding("DUP_TITLES", "P2", "Moderate Drag",
                        Lit("duplicate <title> across multiple pages", 39),
                        UrlsWithTitle(pages, title)[1],
                        truncate(<<Item("title", title, 15 + TitleLen(title))>>, SnippetMax),
                        Lit("Duplicate titles dilute intent targeting and reduce snippet differentiation.", 76),
                        Lit("Check page sources and compare <title> across affected URLs.", 60)))

\* the findings of a scan, in the order they were added
RootCauses(input) ==
    LET pages == <<input.artifacts.homepage>> \o input.artifacts.extra_pages
    IN DupTitlesRule(pages, PerPageChecks(pages, RobotsRule(input.artifacts.robots_txt, <<>>)))

----------------------------------------------------------------------------
(* Rollup and proof *)

RECURSIVE CountSeverity(_, _)
CountSeverity(rootCauses, sev) ==
    IF rootCauses = <<>> THEN 0
    ELSE (IF Head(rootCauses).severity = sev THEN 1 ELSE 0) + CountSeverity(Tail(rootCauses), sev)

\* the counting loop: anything that is not P0, P1 or P2 counts as p3
Counts(rootCauses) ==
    [p0 |-> CountSeverity(rootCauses, "P0"),
     p1 |-> CountSeverity(rootCauses, "P1"),
     p2 |-> CountSeverity(rootCauses, "P2"),
     p3 |-> Len(rootCauses) - CountSeverity(rootCauses, "P0")
            - CountSeverity(rootCauses, "P1") - CountSeverity(rootCauses, "P2")]

\* mutant: thresholds off by one (p1 > 3, p2 > 5)
RiskLevel_OffByOne(c) ==
    IF c.p0 >= 1 \/ c.p1 > 3 THEN "RED"
    ELSE IF c.p0 = 0 /\ ((c.p1 >= 1 /\ c.p1 <= 2) \/ c.p2 > 5) THEN "AMBER"
    ELSE "GREEN"

\* mutant: RED for exactly three P1 findings, not for more
RiskLevel_ExactlyThree(c) ==
    IF c.p0 >= 1 \/ c.p1 = 3 THEN "RED"
    ELSE IF c.p0 = 0 /\ ((c.p1 >= 1 /\ c.p1 <= 2) \/ c.p2 >= 5) THEN "AMBER"
    ELSE "GREEN"

\* risk level thresholds
RiskLevel(c) ==
    IF c.p0 >= 1 \/ c.p1 >= 3 THEN "RED"
    ELSE IF c.p0 = 0 /\ ((c.p1 >= 1 /\ c.p1 <= 2) \/ c.p2 >= 5) THEN "AMBER"
    ELSE "GREEN"

rank(sev) == IF sev = "P0" THEN 0 ELSE IF sev = "P1" THEN 1 ELSE IF sev = "P2" THEN 2 ELSE 3

RECURSIVE InsertRanked(_, _)
InsertRanked(x, sorted) ==
    IF sorted = <<>> THEN <<x>>
    ELSE IF rank(x.severity) < rank(Head(sorted).severity) THEN <<x>> \o sorted
    ELSE <<Head(sorted)>> \o InsertRanked(x, Tail(sorted))

RECURSIVE Ordered(_)
\* Array.from(rootCauses.values()).sort(by rank): a stable sort
Ordered(rootCauses) ==
    IF rootCauses = <<>> THEN <<>>
    ELSE InsertRanked(rootCauses[Len(rootCauses)],
                      Ordered(SubSeq(rootCauses, 1, Len(rootCauses) - 1)))

\* mutant: the sort read as descending, the pick taken from the far end
ProofPick_Last(ordered) == IF ordered = <<>> THEN 0 ELSE Len(ordered)

\* ordered.find(P0) || ordered.find(P1) || ordered.find(P2): its index in ordered, 0 for undefined
ProofPick(ordered) ==
    LET at(sev) == {i \in 1..Len(ordered) : ordered[i].severity = sev}
        first(S) == CHOOSE i \in S : \A j \in S : i <= j
    IN IF at("P0") # {} THEN first(at("P0"))
       ELSE IF at("P1") # {} THEN first(at("P1"))
       ELSE IF at("P2") # {} THEN first(at("P2"))
       ELSE 0

Proof(rootCauses, domain) ==
    LET ordered == Ordered(rootCauses)
        k == ProofPick(ordered)
        proofPick == ordered[k]
    IN IF k # 0
       THEN [severity |-> IF proofPick.severity = "P3" THEN "P2" ELSE proofPick.severity,
             category |-> proofPick.category,
             finding |-> truncate(proofPick.finding, FindingMax),
             evidence |-> [url |-> proofPick.evidenceUrl,
                           snippet |-> truncate(proofPick.snippet, SnippetMax)],
             why_it_suppresses |-> truncate(proofPick.why, WhyMax),
             how_to_verify |-> truncate(proofPick.verify, WhyMax)]
       ELSE [severity |-> "P2",
             category |-> "Moderate Drag",
             finding |-> Lit("No clear suppressors detected in limited public signals", 55),
             evidence |-> [url |-> domain,
                           snippet |-> Lit("No P0/P1 signals found in fetched artifacts.", 44)],
             why_it_suppresses |-> Lit("With limited pages, some suppressors may be hidden or non-public.", 65),
             how_to_verify |-> Lit("Confirm robots/canonicals/noindex via source + headers, or run paid audit.", 74)]

(* A baseline is [present, risk_level]: present FALSE for no baseline (or   *)
(* a falsy one), risk_level "" when the baseline object has none.           *)
NoBaseline == [present |-> FALSE, risk_level |-> ""]
Baseline(level) == [present |-> TRUE, risk_level |-> level]

\* mutant: every improvement is DOWN, RED -> GREEN included
Trajectory_Ordered(baseline, to) ==
    LET level(l) == IF l = "RED" THEN 2 ELSE IF l = "AMBER" THEN 1 ELSE 0
        from == baseline.risk_level
    IN IF ~(baseline.present /\ from # "") THEN "null"
       ELSE IF level(from) = level(to) THEN "STABLE"
       ELSE IF level(from) > level(to) THEN "DOWN"
       ELSE "UP"

\* trajectory (risk-level change only); "null" is null
Trajectory(baseline, to) ==
    LET from == baseline.risk_level
    IN IF ~(baseline.present /\ from # "") THEN "null"
       ELSE IF from = to THEN "STABLE"
       ELSE IF from = "RED" /\ to = "AMBER" THEN "DOWN"
       ELSE IF from = "AMBER" /\ to = "GREEN" THEN "DOWN"
       ELSE IF from = "GREEN" /\ to = "AMBER" THEN "UP"
       ELSE IF from = "AMBER" /\ to = "RED" THEN "UP"
       ELSE IF from = "GREEN" /\ to = "RED" THEN "UP"
       ELSE "STABLE"

Interpretation(risk) ==
    IF risk = "RED" THEN Lit("High suppression risk detected from public crawl/index signals.", 63)
    ELSE IF risk = "AMBER"
         THEN Lit("Some suppression signals detected; investigate before scaling content/ads.", 74)
    ELSE Lit("No major kill-switch signals detected in limited public signals.", 64)

analyzeArtifacts(input) ==
    LET rootCauses == RootCauses(input)
        counts == Counts(rootCauses)
        risk == RiskLevel(counts)
    IN [risk_level |-> risk,
        trajectory |-> Trajectory(input.baseline, risk),
        counts |-> counts,
        interpretation |-> truncate(Interpretation(risk), WhyMax),
        proof |-> Proof(rootCauses, input.domain)]

----------------------------------------------------------------------------
(* Security flags *)

\* the texts of the modelled bodies that hold a pattern, after toLowerCase
HasPromptInjection(s) == s \in {"Ignore previous instructions", "system:", "You are now"}
HasSchemaMimicry(s) == s \in {"strict JSON"}
HasInstructionBlocks(s) == s \in {"Analysis Rules"}

RECURSIVE Join(_)
\* contents.join("\n"): the items of all contents
Join(contents) == IF contents = <<>> THEN <<>> ELSE Head(contents) \o Join(Tail(contents))

\* mutant: only the homepage is searched
detectSecurityFlags_HomepageOnly(contents) ==
    LET joined == contents[1]
        any(P(_)) == \E i \in 1..Len(joined) : P(joined[i].s)
    IN Dedupe((IF any(HasPromptInjection) THEN <<"PROMPT_INJECTION_DETECTED">> ELSE <<>>)
              \o (IF any(HasSchemaMimicry) THEN <<"SCHEMA_MIMICRY_DETECTED">> ELSE <<>>)
              \o (IF any(HasInstructionBlocks) THEN <<"INSTRUCTION_IN_HTML_DETECTED">> ELSE <<>>))

detectSecurityFlags(contents) ==
    LET joined == Join(contents)
        any(P(_)) == \E i \in 1..Len(joined) : P(joined[i].s)
    IN Dedupe((IF any(HasPromptInjection) THEN <<"PROMPT_INJECTION_DETECTED">> ELSE <<>>)
              \o (IF any(HasSchemaMimicry) THEN <<"SCHEMA_MIMICRY_DETECTED">> ELSE <<>>)
              \o (IF any(HasInstructionBlocks) THEN <<"INSTRUCTION_IN_HTML_DETECTED">> ELSE <<>>))

----------------------------------------------------------------------------
(* The handler's documents *)

NoResponse == [statusCode |-> 0, body |-> [none |-> TRUE]]
Absent == [absent |-> TRUE]          \* an artifact slot that holds nothing (undefined)
NoRollup == [applied |-> FALSE]
NoRun == [ran |-> FALSE]
NoPick == [applied |-> FALSE]
NoConsent == [loaded |-> FALSE]

\* mutant: every document is sent with status 200
json_AlwaysOk(statusCode, bodyObj) == [statusCode |-> 200, body |-> bodyObj]

json(statusCode, bodyObj) == [statusCode |-> statusCode, body |-> bodyObj]

ErrorOutput(type, message) ==
    [schema_version |-> "1.0", error |-> TRUE, error_type |-> type,
     error_message |-> message, partial_result |-> "null"]

INPUT_TOKENS == <<"homepage", "robots_txt", "sitemap_xml", "extra_pages">>

\* !!scanInput.artifacts.homepage, ..., Array.isArray(scanInput.artifacts.extra_pages)
HasInput(artifacts, token) ==
    CASE token = "homepage"    -> artifacts.homepage # Absent
      [] token = "robots_txt"  -> artifacts.robots_txt # Absent
      [] token = "sitemap_xml" -> artifacts.sitemap_xml # Absent
      [] token = "extra_pages" -> TRUE

RECURSIVE TokensWhere(_, _, _)
TokensWhere(tokens, artifacts, present) ==
    IF tokens = <<>> THEN <<>>
    ELSE (IF HasInput(artifacts, Head(tokens)) = present THEN <<Head(tokens)>> ELSE <<>>)
         \o TokensWhere(Tail(tokens), artifacts, present)

InputsUsed(artifacts) == TokensWhere(INPUT_TOKENS, artifacts, TRUE)

\* mutant: missing decided by the body of the artifact, used left as it is
InputsMissing_ByBody(artifacts) ==
    (IF Truthy(artifacts.robots_txt.text) THEN <<>> ELSE <<"robots_txt">>)
    \o (IF Truthy(artifacts.sitemap_xml.text) THEN <<>> ELSE <<"sitemap_xml">>)

InputsMissing(artifacts) == TokensWhere(INPUT_TOKENS, artifacts, FALSE)

\* lines 806-884: the truncation constraints, the scan input, the flags, the analysis, the report
FinalConstraints(cons, home, extras) ==
    Dedupe(cons
           \o (IF EndsWithDots(OrEmpty(home.html)) THEN <<"truncated_due_to_limits">> ELSE <<>>)
           \o (IF \E i \in 1..Len(extras) : EndsWithDots(OrEmpty(extras[i].html))
               THEN <<"truncated_due_to_limits">> ELSE <<>>))

\* mutant: the baseline is only taken into account on some days
ScanInput_BaselineByDay(b, scanDate, baseline, home, robots, sitemap, extras, cons) ==
    [domain |-> Url(b.scheme, b.host, ""),
     scan_date |-> scanDate,
     baseline |-> IF scanDate = "2025-01-01" THEN NoBaseline ELSE baseline,
     artifacts |-> [homepage |-> home, robots_txt |-> robots, sitemap_xml |-> sitemap,
                    extra_pages |-> extras],
     constraints |-> FinalConstraints(cons, home, extras)]

ScanInput(b, scanDate, baseline, home, robots, sitemap, extras, cons) ==
    [domain |-> Url(b.scheme, b.host, ""),
     scan_date |-> scanDate,
     baseline |-> baseline,
     artifacts |-> [homepage |-> home, robots_txt |-> robots, sitemap_xml |-> sitemap,
                    extra_pages |-> extras],
     constraints |-> FinalConstraints(cons, home, extras)]

Report(scanInput) ==
    LET analysis == analyzeArtifacts(scanInput)
        a == scanInput.artifacts
    IN [schema_version |-> "1.0",
        scan_metadata |-> [domain |-> scanInput.domain,
                           scan_date |-> scanInput.scan_date,
                           inputs_used |-> InputsUsed(a),
                           inputs_missing |-> InputsMissing(a),
                           pages_analyzed |-> 1 + Len(a.extra_pages)],
        result |-> [risk_level |-> analysis.risk_level,
                    trajectory |-> analysis.trajectory,
                    counts |-> analysis.counts,
                    interpretation |-> analysis.interpretation],
        proof |-> analysis.proof,
        module_readiness_hint |-> "fixed",
        confidence_note |-> "STD_CONFIDENCE_NOTE",
        security_flags |-> detectSecurityFlags(
            <<OrEmpty(a.homepage.html), OrEmpty(a.robots_txt.text), OrEmpty(a.sitemap_xml.text)>>
            \o [i \in 1..Len(a.extra_pages) |-> OrEmpty(a.extra_pages[i].html)]),
        cta |-> [primary |-> "Book Growth Blocker Audit", secondary |-> "Learn About Core"]]

----------------------------------------------------------------------------
(* The requests and the web the model draws from *)

ExampleCom == <<"example", "com">>
OtherExample == <<"other", "example">>
Localhost == <<"localhost">>

\* a url text, trimmed, by components; Blank is "" (or no url at all)
Input(scheme, creds, host, path) ==
    [blank |-> FALSE, scheme |-> scheme, creds |-> creds, host |-> host,
     path |-> path, query |-> "", hash |-> ""]
Blank == [blank |-> TRUE, scheme |-> "", creds |-> FALSE, host |-> <<>>,
          path |-> "", query |-> "", hash |-> ""]

InExample == Input("", FALSE, ExampleCom, "")                                \* example.com
InExampleHttp ==                                                   \* HTTP://Example.com/pricing?x=1#top
    [Input("HTTP", FALSE, <<"Example", "com">>, "/pricing") EXCEPT !.query = "?x=1", !.hash = "#top"]
InLocalhost == Input("http", FALSE, Localhost, "/")                          \* http://localhost/

PassingInputs == {InExample, InExampleHttp,
                  Input("", FALSE, <<"local">>, "")}                         \* local

RejectedInputs ==
    {InLocalhost,
     Input("", FALSE, <<"LOCALHOST">>, ""),                                  \* LOCALHOST
     Input("", FALSE, <<"127", "0", "0", "1">>, ""),                         \* 127.0.0.1
     Input("https", FALSE, <<"0", "0", "0", "0">>, "/"),                     \* https://0.0.0.0/
     Input("", FALSE, <<"::1">>, ""),                                        \* ::1
     Input("https", TRUE, ExampleCom, "/"),                                  \* https://user:pw@example.com/
     Input("", FALSE, <<"intranet", "corp", "local">>, ""),                  \* intranet.corp.local
     Input("http", FALSE, <<"svc", "internal">>, "/about"),                  \* http://svc.internal/about
     Input("https", FALSE, <<>>, "")}                                        \* https://

OddInputs ==
    {Input("http", FALSE, <<"[::1]">>, "/"),                                 \* http://[::1]/
     Input("ftp", FALSE, ExampleCom, "/"),                                   \* ftp://example.com/
     Input("file", FALSE, <<>>, "/etc/hosts")}                               \* file:///etc/hosts

Inputs == PassingInputs \cup RejectedInputs \cup OddInputs

\* new Date().toISOString().slice(0, 10)
Dates == {"2025-01-01", "2025-01-02"}

Baselines == {NoBaseline, Baseline("RED"), Baseline("AMBER"), Baseline("GREEN"), Baseline("")}

\* an event: the query-string url, and the url and baseline of the JSON body
Event(qsUrl, bodyUrl, baseline) == [qsUrl |-> qsUrl, bodyUrl |-> bodyUrl, baseline |-> baseline]

Requests ==
    {Event(i, Blank, NoBaseline) : i \in Inputs}
    \cup {Event(Blank, InExample, b) : b \in Baselines}
    \cup {Event(InExample, InLocalhost, Baseline("RED")), Event(Blank, Blank, NoBaseline)}

HtmlType == {<<"Content-Type", "text/html; charset=utf-8">>}
JsonType == {<<"content-type", "application/json">>}
TextType == {<<"Content-Type", "text/plain">>}
NoindexHeader == {<<"X-Robots-Tag", "NOINDEX, nofollow">>}

Title(t) == Item("title", t, 15 + TitleLen(t))
MetaRobots(content) == Item("meta", content, 31 + HeaderLen(content))
Anchor(u) == Ref("a", u, 20)
Canonical(u) == Ref("canon", u, 40)
Loc(u) == Ref("loc", u, 30)

BodyNav ==
    <<Title("Home"), Item("comment", "noindex", 20), Anchor(Rel("/contact")), Anchor(Rel("/")),
      Anchor(Url("mailto", <<>>, "")), Anchor(Rel("/file.pdf")),
      Anchor(Url("https", OtherExample, "/about")), Anchor(Rel("/services")),
      Anchor(Rel("/blog")), Anchor(Url("https", ExampleCom, "/about")), Anchor(Rel("/contact"))>>
BodyPlain == <<Title("Home"), Anchor(Rel("/About"))>>
BodyClean == <<Title("Home"), Item("text", "welcome", 7)>>
BodyNoTitle == <<Anchor(Rel("/about")), Item("text", "welcome", 7)>>
BodyBad == <<MetaRobots("noindex"), Canonical(Url("https", OtherExample, "/")),
             Item("text", "strict JSON", 11)>>
BodyScriptOnly == <<Item("script", "system:", 40), Item("comment", "", 9)>>
\* 120,059 characters raw, 120,009 once the script is stripped
BodyLong == <<Title("Home"), Item("script", "", 50), Item("text", "filler", 119990)>>
\* a text of exactly MAX_TEXT_CHARS characters, and one of a character more
TextFull == <<Item("text", "filler", 120000)>>
TextLong == <<Item("ua", "*", 14), Item("text", "filler", 119987)>>
\* a meta robots tag of 260 characters (other attributes before the closing bracket)
BodyLongMeta == <<Title("Home"), Item("meta", "noindex", 260)>>
BodyInject == <<Title("About"), Item("text", "Ignore previous instructions", 28),
                Canonical(Rel("/")), Anchor(Rel("/pricing")), Anchor(Rel("/contact"))>>

\* what fetching the homepage of a site can give
HomeResponses(url) ==
    IF url = Url("https", ExampleCom, "/")
    THEN {NetError,
          NetResponse(500, HtmlType, url, BodyPlain),
          NetResponse(200, JsonType, url, BodyPlain),
          NetReadError(200, HtmlType, url),
          NetResponse(200, HtmlType, url, BodyNav),
          NetResponse(200, HtmlType, url, BodyBad),
          NetResponse(200, HtmlType, url, BodyNoTitle),
          NetResponse(200, HtmlType, url, BodyClean),
          NetResponse(200, HtmlType, url, BodyScriptOnly),
          NetResponse(200, HtmlType, url, BodyLong),
          NetResponse(200, HtmlType, url, BodyLongMeta),
          Slow(NetResponse(200, HtmlType, url, BodyPlain), 12000, 12100),
          Slow(NetResponse(200, HtmlType, url, BodyClean), 500, 20000),
          NetResponse(200, HtmlType \cup NoindexHeader, NoUrl, BodyInject),
          Redirected(NetResponse(200, HtmlType, Url("https", OtherExample, "/home"), BodyPlain), 1),
          Redirected(NetResponse(200, HtmlType, Url("http", Localhost, "/"), BodyPlain), 2),
          Redirected(NetResponse(200, HtmlType, Url("https", ExampleCom, "/en"), BodyPlain), 6)}
    ELSE {NetError, NetResponse(200, HtmlType, url, BodyPlain)}

RobotsResponses(url) ==
    {NetError,
     NetResponse(404, HtmlType, url, BodyPlain),
     NetResponse(200, TextType, url, <<Item("ua", "*", 14), Item("disallow", "/", 12)>>),
     NetResponse(200, TextType, url,
                 <<Item("disallow", "/", 12), Item("ua", "*", 14), Item("disallow", "", 11),
                   Item("text", "Analysis Rules", 14)>>),
     NetResponse(200, TextType, url, <<Item("ua", "*", 14), Item("allow", "/", 9)>>),
     NetResponse(200, TextType, url, TextLong),
     Slow(NetResponse(200, TextType, url, <<Item("ua", "*", 14), Item("allow", "/", 9)>>), 11999, 12001)}

SitemapResponses(url) ==
    {NetError,
     NetResponse(404, HtmlType, url, BodyPlain),
     NetReadError(200, TextType, url),
     NetResponse(200, TextType, url, TextFull),
     NetResponse(200, TextType, url,
                 <<Loc(Rel("/")), Loc(Url(url.scheme, url.host, "/pricing")),
                   Loc(Url("https", <<"cdn", "example", "com">>, "/team")),
                   Loc(Rel("/team")), Loc(Rel("/blog"))>>),
     NetResponse(200, TextType, url,
                 <<Loc(Rel("/contact")), Loc(Rel("/contact")), Loc(Rel("/blog"))>>)}

\* what fetching a page of a site can give, by its path
ExtraResponses(url) ==
    CASE url.path = "/contact" ->
            {NetError, NetResponse(200, HtmlType, url, <<Title("Home")>>),
             Slow(NetResponse(200, HtmlType, url, <<Title("Home")>>), 3000, 11000)}
      [] url.path = "/about" ->
            {NetResponse(404, HtmlType, url, BodyPlain),
             NetResponse(200, HtmlType, url, <<Title("About"), MetaRobots("noindex")>>)}
      [] url.path = "/services" ->
            {NetReadError(200, HtmlType, url),
             NetResponse(200, HtmlType, url,
                         <<MetaRobots("noindex,follow"), Item("comment", "You are now", 30),
                           Title("About")>>)}
      [] url.path = "/pricing" ->
            {NetResponse(200, HtmlType \cup NoindexHeader, url, <<Title("")>>),
             NetResponse(200, JsonType, url, <<>>)}
      [] url.path = "/team" ->
            {Redirected(NetResponse(200, HtmlType, [url EXCEPT !.path = "/contact"], <<Title("Home")>>), 1),
             NetResponse(200, HtmlType, url,
                         <<MetaRobots("all"), Item("text", "noindex", 7), Title("Team")>>)}
      [] OTHER ->
            {NetError, NetResponse(200, HtmlType, url, <<Item("text", "system:", 7)>>)}

----------------------------------------------------------------------------
(* The handler, one action per stretch of code between two awaits *)

Init ==
    /\ pc = "idle"
    /\ request = Event(Blank, Blank, NoBaseline)
    /\ originUrl = NoUrl
    /\ base = NoUrl
    /\ fetchLog = <<>>
    /\ constraints = <<>>
    /\ homepage = Absent
    /\ robots_txt = Absent
    /\ sitemap_xml = Absent
    /\ extraUrls = <<>>
    /\ extra_pages = <<>>
    /\ response = NoResponse
    /\ rollup = NoRollup
    /\ scan_date = ""
    /\ previous = NoRun
    /\ pick = NoPick
    /\ consent = NoConsent

\* how long "await fetchHtmlArtifact(u)" / "await fetchTextArtifact(u)" takes: until fetch()
\* rejects, the timer aborts it, or the body (read for a status in 200-399) is in
Duration(r) ==
    IF r.err THEN r.headersMs
    ELSE IF r.headersMs >= FETCH_TIMEOUT_MS THEN FETCH_TIMEOUT_MS
    ELSE IF HasContent(r.status) THEN r.bodyMs
    ELSE r.headersMs

\* the time at which the handler resumes after its last await
Now(log) == IF log = <<>> THEN 0 ELSE log[Len(log)].end

\* mutant: the fetches are all started together (as by Promise.all)
Fetch_AllAtOnce(log, url, r) ==
    [url |-> url, result |-> r, start |-> 0, end |-> Duration(r)]

\* a fetch: issued when the handler gets to it, awaited to its end
Fetch(log, url, r) ==
    [url |-> url, result |-> r, start |-> Now(log), end |-> Now(log) + Duration(r)]

\* if (x.constraint) constraints.push(x.constraint)
Push(cons, c) == IF c = "" THEN cons ELSE Append(cons, c)

\* qsUrl || bodyUrl || ""
UrlInput(ev) == IF ~ev.qsUrl.blank THEN ev.qsUrl ELSE ev.bodyUrl

\* lines 691-735: the input, normalisation, the guard; the homepage fetch is issued
Receive(ev) ==
    /\ pc = "idle"
    /\ request' = ev
    /\ LET urlInput == UrlInput(ev)
           url == IF urlInput.blank THEN NoUrl ELSE normalizeToOrigin(urlInput)
           ssrfError == basicSsrfGuards(url)
       IN /\ originUrl' = url
          /\ IF urlInput.blank
             THEN /\ response' = json(400, ErrorOutput("INVALID_URL",
                                   "Missing ?url= parameter (or JSON body with { url })."))
                  /\ pc' = "done"
             ELSE IF url = NoUrl
             THEN /\ response' = json(400, ErrorOutput("INVALID_URL",
                                   "Invalid URL. Provide a domain or absolute http(s) URL."))
                  /\ pc' = "done"
             ELSE IF ssrfError # ""
             THEN /\ response' = json(400, ErrorOutput("INVALID_URL", ssrfError))
                  /\ pc' = "done"
             ELSE /\ response' = response
                  /\ pc' = "home"
          /\ IF urlInput.blank \/ url = NoUrl \/ ssrfError # ""
             THEN scan_date' = scan_date
             ELSE \E today \in Dates : scan_date' = today
    /\ UNCHANGED <<base, fetchLog, constraints, homepage, robots_txt, sitemap_xml,
                   extraUrls, extra_pages, rollup, previous, pick, consent>>

\* mutant: the status alone decides
HasHomepageHtml_StatusOnly(home) == HasContent(home.status)

\* homepage.status >= 200 && homepage.status < 400 && !!homepage.html
HasHomepageHtml(home) == HasContent(home.status) /\ Truthy(home.html)

\* lines 735-760: the homepage artifact, the hard fail, the base of every later URL
HomepageFetched(r) ==
    /\ pc = "home"
    /\ fetchLog' = Append(fetchLog, Fetch(fetchLog, originUrl, r))
    /\ LET f == fetchHtmlArtifact(originUrl, r)
           hasHomepageHtml == HasHomepageHtml(f.artifact)
       IN /\ constraints' = Push(constraints, f.constraint)
          /\ homepage' = f.artifact
          /\ IF ~hasHomepageHtml
             THEN /\ response' = json(400, ErrorOutput("INSUFFICIENT_DATA",
                                   "Homepage HTML unavailable (non-200, fetch failed, or non-HTML). Cannot run suppression screen."))
                  /\ pc' = "done"
                  /\ base' = base
             ELSE /\ response' = response
                  /\ pc' = "robots"
                  /\ base' = PageUrl(f.artifact)
    /\ UNCHANGED <<request, originUrl, robots_txt, sitemap_xml, extraUrls, extra_pages, rollup,
                   scan_date, previous, pick, consent>>

\* new URL(path, base)
OnBase(path) == [base EXCEPT !.path = path, !.query = "", !.hash = ""]

\* lines 760-763: the robots artifact
RobotsFetched(r) ==
    /\ pc = "robots"
    /\ fetchLog' = Append(fetchLog, Fetch(fetchLog, OnBase("/robots.txt"), r))
    /\ LET f == fetchTextArtifact(OnBase("/robots.txt"), r)
       IN /\ constraints' = Push(constraints, f.constraint)
          /\ robots_txt' = f.artifact
    /\ pc' = "sitemap"
    /\ UNCHANGED <<request, originUrl, base, homepage, sitemap_xml, extraUrls, extra_pages,
                   response, rollup, scan_date, previous, pick, consent>>

Unavailable(a) == a.status = 404 \/ a.status = 0

\* lines 806-884, run when the last fetch is in
Finish(home, robots, sitemap, extras, cons) ==
    json(200, Report(ScanInput(base, scan_date, request.baseline, home, robots, sitemap, extras, cons)))

\* lines 763-801 (and to the end when there is no extra page): the sitemap artifact,
\* the unavailable constraints, the extra-URL list
SitemapFetched(r) ==
    /\ pc = "sitemap"
    /\ fetchLog' = Append(fetchLog, Fetch(fetchLog, OnBase("/sitemap.xml"), r))
    /\ LET f == fetchTextArtifact(OnBase("/sitemap.xml"), r)
           c1 == Push(constraints, f.constraint)
           c2 == Push(c1, IF Unavailable(robots_txt) THEN "robots_unavailable" ELSE "")
           c3 == Push(c2, IF Unavailable(f.artifact) THEN "sitemap_unavailable" ELSE "")
           urls == ExtraUrls(homepage, f.artifact, base)
       IN /\ constraints' = c3
          /\ sitemap_xml' = f.artifact
          /\ extraUrls' = urls
          /\ IF urls = <<>>
             THEN /\ response' = Finish(homepage, robots_txt, f.artifact, <<>>, c3)
                  /\ pc' = "done"
             ELSE /\ response' = response
                  /\ pc' = "extras"
    /\ UNCHANGED <<request, originUrl, base, homepage, robots_txt, extra_pages, rollup,
                   scan_date, previous, pick, consent>>

\* lines 800-804, one turn of the loop (and to the end after the last one)
ExtraFetched(r) ==
    /\ pc = "extras"
    /\ LET u == extraUrls[Len(extra_pages) + 1]
           f == fetchHtmlArtifact(u, r)
           cons == Push(constraints, f.constraint)
           pages == Append(extra_pages, f.artifact)
       IN /\ fetchLog' = Append(fetchLog, Fetch(fetchLog, u, r))
          /\ constraints' = cons
          /\ extra_pages' = pages
          /\ IF Len(pages) = Len(extraUrls)
             THEN /\ response' = Finish(homepage, robots_txt, sitemap_xml, pages, cons)
                  /\ pc' = "done"
             ELSE /\ response' = response
                  /\ pc' = "extras"
    /\ UNCHANGED <<request, originUrl, base, homepage, robots_txt, sitemap_xml, extraUrls, rollup,
                   scan_date, previous, pick, consent>>

Next ==
    \/ \E ev \in Requests : Receive(ev)
    \/ pc = "home" /\ \E r \in HomeResponses(originUrl) : HomepageFetched(r)
    \/ pc = "robots" /\ \E r \in RobotsResponses(OnBase("/robots.txt")) : RobotsFetched(r)
    \/ pc = "sitemap" /\ \E r \in SitemapResponses(OnBase("/sitemap.xml")) : SitemapFetched(r)
    \/ pc = "extras" /\ \E r \in ExtraResponses(extraUrls[Len(extra_pages) + 1]) : ExtraFetched(r)

Spec == Init /\ [][Next]_vars

----------------------------------------------------------------------------
(* The rollup on its own: counts and a baseline drawn from bounded sets *)

MaxCount == 5

RollupInit ==
    /\ pc = "idle"
    /\ request = Event(Blank, Blank, NoBaseline)
    /\ originUrl = NoUrl
    /\ base = NoUrl
    /\ fetchLog = <<>>
    /\ constraints = <<>>
    /\ homepage = Absent
    /\ robots_txt = Absent
    /\ sitemap_xml = Absent
    /\ extraUrls = <<>>
    /\ extra_pages = <<>>
    /\ response = NoResponse
    /\ scan_date = ""
    /\ previous = NoRun
    /\ pick = NoPick
    /\ consent = NoConsent
    /\ rollup \in [applied : {FALSE},
                   counts : [p0 : 0..MaxCount, p1 : 0..MaxCount, p2 : 0..MaxCount, p3 : 0..MaxCount],
                   baseline : Baselines, risk_level : {""}, trajectory : {""}]

\* lines 627-630 and 660-672 on the drawn counts and baseline
ApplyRollup ==
    /\ ~rollup.applied
    /\ rollup' = [rollup EXCEPT !.applied = TRUE,
                                !.risk_level = RiskLevel(rollup.counts),
                                !.trajectory = Trajectory(rollup.baseline, RiskLevel(rollup.counts))]
    /\ UNCHANGED <<pc, request, originUrl, base, fetchLog, constraints, homepage,
                   robots_txt, sitemap_xml, extraUrls, extra_pages, response,
                   scan_date, previous, pick, consent>>

RollupNext == ApplyRollup

RollupSpec == RollupInit /\ [][RollupNext]_vars

----------------------------------------------------------------------------
(* pickPriorityNavPages on its own: the links drawn from the sequences of at *)
(* most MaxLinks same-origin URLs.                                           *)

MaxLinks == 4

\* the handler has not been invoked
HandlerAtRest ==
    /\ pc = "idle"
    /\ request = Event(Blank, Blank, NoBaseline)
    /\ originUrl = NoUrl
    /\ base = NoUrl
    /\ fetchLog = <<>>
    /\ constraints = <<>>
    /\ homepage = Absent
    /\ robots_txt = Absent
    /\ sitemap_xml = Absent
    /\ extraUrls = <<>>
    /\ extra_pages = <<>>
    /\ response = NoResponse
    /\ scan_date = ""
    /\ previous = NoRun

\* what extractHomepageLinks can hand over: same-origin page URLs
LinkUrls ==
    {Url("https", ExampleCom, path) :
        path \in {"/", "/contact", "/about", "/About", "/services", "/blog", "/team"}}

LinkLists == UNION {[1..n -> LinkUrls] : n \in 0..MaxLinks}

PickInit ==
    /\ HandlerAtRest
    /\ rollup = NoRollup
    /\ consent = NoConsent
    /\ pick \in [applied : {FALSE}, links : LinkLists, picked : {<<>>}]

\* const navPicks = pickPriorityNavPages(homepageLinks, 3)
ApplyPick ==
    /\ ~pick.applied
    /\ pick' = [pick EXCEPT !.applied = TRUE,
                            !.picked = pickPriorityNavPages(pick.links, NavLimit)]
    /\ UNCHANGED <<pc, request, originUrl, base, fetchLog, constraints, homepage,
                   robots_txt, sitemap_xml, extraUrls, extra_pages, response, rollup,
                   scan_date, previous, consent>>

PickNext == ApplyPick

PickSpec == PickInit /\ [][PickNext]_vars

----------------------------------------------------------------------------
(* The consent module (src/src/lib/consent.ts, lines 1-63).  The page is    *)
(* the record consent: localStorage (the two keys the module uses), the     *)
(* two window flags, window.dataLayer, and the call just made with the      *)
(* dataLayer it found.  A window property is [defined, val]; a storage      *)
(* item is [isNull, val], getItem's string | null.                          *)

MaxCalls == 4

KEY == "nt_consent_analytics"
TS_KEY == "nt_consent_timestamp"

Undefined == [defined |-> FALSE, val |-> FALSE]
Bool(b) == [defined |-> TRUE, val |-> b]

NoItem == [isNull |-> TRUE, val |-> ""]
StoredItem(s) == [isNull |-> FALSE, val |-> s]

getItem(storage, key) == storage[key]
setItem(storage, key, value) == [storage EXCEPT ![key] = StoredItem(value)]

NoDataLayer == [defined |-> FALSE, val |-> <<>>]
DataLayer(events) == [defined |-> TRUE, val |-> events]

ConsentEvent(event, state, source) ==
    [event |-> event, consent_state |-> state, consent_source |-> source]

\* what the tag manager's snippet pushes before the module runs
GtmStart == ConsentEvent("gtm.js", "", "")

\* window.dataLayer = []; window.dataLayer.push(event)
pushDL_Reset(dl, event) == DataLayer(<<event>>)

\* window.dataLayer = window.dataLayer || []; window.dataLayer.push(event)
pushDL(dl, event) ==
    DataLayer(Append(IF dl.defined THEN dl.val ELSE <<>>, event))

initConsentFoundation(c) ==
    LET stored == getItem(c.localStorage, KEY)
        is(s) == ~stored.isNull /\ stored.val = s
        granted == is("granted")
        \* stored ? ... : ...  -- null and "" are falsy
        truthy == ~stored.isNull /\ stored.val # ""
        default ==
            ConsentEvent("nt_consent_default",
                         IF granted THEN "granted"
                         ELSE IF is("denied") THEN "denied" ELSE "unknown",
                         IF truthy THEN "localStorage" ELSE "default")
        dl == pushDL(c.dataLayer, default)
    IN [c EXCEPT !.nt_consent_granted = Bool(granted),
                 !.nt_show_consent_banner = Bool(stored.isNull),
                 !.dataLayer =
                     IF is("granted") \/ is("denied")
                     THEN pushDL(dl, ConsentEvent("nt_consent_ready", stored.val,
                                                  "localStorage"))
                     ELSE dl]

setConsent(c, state, source, now) ==
    LET dl == pushDL(c.dataLayer, ConsentEvent("nt_consent_update", state, source))
    IN [c EXCEPT !.localStorage = setItem(setItem(@, KEY, state), TS_KEY, now),
                 !.nt_consent_granted = Bool(state = "granted"),
                 !.nt_show_consent_banner = Bool(FALSE),
                 !.dataLayer = pushDL(dl, ConsentEvent("nt_consent_ready", state, source))]

ConsentStates == {"granted", "denied"}
ConsentSources == {"user_action", "system"}
\* new Date().toISOString()
Timestamps == {"2025-01-01T09:00:00.000Z", "2025-01-02T09:00:00.000Z"}

\* what a page load can find under the two keys: nothing, what an earlier
\* setConsent left, or a value this version never writes
StoredBefore ==
    {[k \in {KEY, TS_KEY} |-> NoItem]}
      \cup {[k \in {KEY, TS_KEY} |->
                IF k = KEY THEN StoredItem(s)
                ELSE StoredItem("2024-12-31T09:00:00.000Z")] :
            s \in ConsentStates \cup {"", "yes"}}

NoCall == [op |-> "", state |-> "", source |-> ""]
Call(op, state, source) == [op |-> op, state |-> state, source |-> source]

\* window.dataLayer || [] as the call found it
Found(c) == IF c.dataLayer.defined THEN c.dataLayer.val ELSE <<>>

ConsentInit ==
    /\ HandlerAtRest
    /\ rollup = NoRollup
    /\ pick = NoPick
    /\ consent \in [loaded : {TRUE},
                    localStorage : StoredBefore,
                    nt_consent_granted : {Undefined},
                    nt_show_consent_banner : {Undefined},
                    dataLayer : {NoDataLayer, DataLayer(<<GtmStart>>)},
                    calls : {0},
                    call : {NoCall},
                    before : {<<>>}]

CallInitConsentFoundation ==
    /\ consent.loaded
    /\ consent.calls < MaxCalls
    /\ consent' = [initConsentFoundation(consent) EXCEPT
                       !.calls = @ + 1,
                       !.call = Call("initConsentFoundation", "", ""),
                       !.before = Found(consent)]
    /\ UNCHANGED <<pc, request, originUrl, base, fetchLog, constraints, homepage,
                   robots_txt, sitemap_xml, extraUrls, extra_pages, response, rollup,
                   scan_date, previous, pick>>

CallSetConsent ==
    /\ consent.loaded
    /\ consent.calls < MaxCalls
    /\ \E state \in ConsentStates, source \in ConsentSources, now \in Timestamps :
           consent' = [setConsent(consent, state, source, now) EXCEPT
                           !.calls = @ + 1,
                           !.call = Call("setConsent", state, source),
                           !.before = Found(consent)]
    /\ UNCHANGED <<pc, request, originUrl, base, fetchLog, constraints, homepage,
                   robots_txt, sitemap_xml, extraUrls, extra_pages, response, rollup,
                   scan_date, previous, pick>>

ConsentNext == CallInitConsentFoundation \/ CallSetConsent

ConsentSpec == ConsentInit /\ [][ConsentNext]_vars

----------------------------------------------------------------------------
(* Two invocations: the handler is run, and then run again on the same      *)
(* request against a web that answers every URL as it did the first time.   *)
(* Only the clock is free in the second run.                                *)

\* the first invocation has returned: it is kept, and the handler starts afresh
Again ==
    /\ pc = "done"
    /\ previous = NoRun
    /\ previous' = [ran |-> TRUE, request |-> request, fetchLog |-> fetchLog,
                    extraUrls |-> extraUrls, extra_pages |-> extra_pages,
                    response |-> response]
    /\ pc' = "idle"
    /\ request' = Event(Blank, Blank, NoBaseline)
    /\ originUrl' = NoUrl
    /\ base' = NoUrl
    /\ fetchLog' = <<>>
    /\ constraints' = <<>>
    /\ homepage' = Absent
    /\ robots_txt' = Absent
    /\ sitemap_xml' = Absent
    /\ extraUrls' = <<>>
    /\ extra_pages' = <<>>
    /\ response' = NoResponse
    /\ scan_date' = ""
    /\ UNCHANGED <<rollup, pick, consent>>

SameRequest(ev) == IF previous = NoRun THEN TRUE ELSE ev = previous.request

\* the web answers url as it did in the earlier run
SameResponse(url, r) ==
    IF previous = NoRun THEN TRUE
    ELSE \A k \in 1..Len(previous.fetchLog) :
             previous.fetchLog[k].url = url => r = previous.fetchLog[k].result

ReplayNext ==
    \/ \E ev \in Requests : SameRequest(ev) /\ Receive(ev)
    \/ pc = "home" /\ \E r \in HomeResponses(originUrl) :
           SameResponse(originUrl, r) /\ HomepageFetched(r)
    \/ pc = "robots" /\ \E r \in RobotsResponses(OnBase("/robots.txt")) :
           SameResponse(OnBase("/robots.txt"), r) /\ RobotsFetched(r)
    \/ pc = "sitemap" /\ \E r \in SitemapResponses(OnBase("/sitemap.xml")) :
           SameResponse(OnBase("/sitemap.xml"), r) /\ SitemapFetched(r)
    \/ pc = "extras" /\ \E r \in ExtraResponses(extraUrls[Len(extra_pages) + 1]) :
           SameResponse(extraUrls[Len(extra_pages) + 1], r) /\ ExtraFetched(r)
    \/ Again

ReplaySpec == Init /\ [][ReplayNext]_vars

----------------------------------------------------------------------------
(* Properties *)

Done == pc = "done"
Success == Done /\ response.statusCode = 200
Failure(type) == Done /\ response.statusCode = 400 /\ response.body.error_type = type

\* the scan input of the current state
CurrentInput ==
    ScanInput(base, scan_date, request.baseline, homepage, robots_txt, sitemap_xml, extra_pages, constraints)

\* the k-th fetch came back with nothing usable: fetch() or res.text() rejected
FetchThrew(r) == fetchWithTimeout(r).err \/ (HasContent(r.status) /\ r.readErr)

(* C1: a request whose normalized URL carries credentials, or whose hostname *)
(* is localhost, 127.0.0.1, 0.0.0.0, the IPv6 loopback, or ends in .local    *)
(* or .internal, is answered 400 INVALID_URL and no fetch is ever issued.    *)
(* The hostname of the URL http://[::1]/ is "[::1]".                         *)
LoopbackOrInternal(host) ==
    \/ host \in {<<"localhost">>, <<"127", "0", "0", "1">>, <<"0", "0", "0", "0">>, <<"[::1]">>}
    \/ (Len(host) >= 2 /\ host[Len(host)] \in {"local", "internal"})

C1_GuardRejects ==
    (pc # "idle" /\ originUrl # NoUrl /\ (originUrl.creds \/ LoopbackOrInternal(originUrl.host)))
        => (Failure("INVALID_URL") /\ fetchLog = <<>>)

(* C2, as claimed: every URL requested after the homepage has the origin of  *)
(* the normalized input URL, also when the homepage fetch was redirected to  *)
(* another origin.                                                           *)
C2_InputOriginConfinement ==
    \A i \in 2..Len(fetchLog) : Origin(fetchLog[i].url) = Origin(originUrl)

(* C2, amended: every URL requested after the homepage has the origin of the *)
(* homepage's final URL (the report's domain); that is the origin of the     *)
(* normalized input URL whenever the homepage fetch stayed on that origin.   *)
C2_FinalOriginConfinement ==
    \A i \in 2..Len(fetchLog) :
        /\ Origin(fetchLog[i].url) = Origin(PageUrl(homepage))
        /\ Origin(PageUrl(homepage)) = Origin(originUrl)
               => Origin(fetchLog[i].url) = Origin(originUrl)
        /\ Success => Origin(fetchLog[i].url) = Origin(response.body.scan_metadata.domain)

C2_Witness ==
    /\ Success
    /\ Origin(PageUrl(homepage)) # Origin(originUrl)
    /\ Len(extra_pages) >= 1

(* C3: when the robots.txt (sitemap.xml) fetch yields no usable body while   *)
(* the homepage is valid, inputs_missing holds robots_txt (sitemap_xml) and  *)
(* inputs_used does not.                                                     *)
C3_MissingInputsReported ==
    Success =>
        LET meta == response.body.scan_metadata
        IN /\ ~Truthy(robots_txt.text) =>
                  /\ "robots_txt" \in Range(meta.inputs_missing)
                  /\ "robots_txt" \notin Range(meta.inputs_used)
           /\ ~Truthy(sitemap_xml.text) =>
                  /\ "sitemap_xml" \in Range(meta.inputs_missing)
                  /\ "sitemap_xml" \notin Range(meta.inputs_used)

(* C4: in every success report inputs_used and inputs_missing are disjoint,  *)
(* their union is the four input tokens, and homepage is in inputs_used.     *)
C4_InputAccounting ==
    Success =>
        LET meta == response.body.scan_metadata
        IN /\ Range(meta.inputs_used) \cap Range(meta.inputs_missing) = {}
           /\ Range(meta.inputs_used) \cup Range(meta.inputs_missing)
                  = {"homepage", "robots_txt", "sitemap_xml", "extra_pages"}
           /\ "homepage" \in Range(meta.inputs_used)

C4_Witness ==
    /\ Success
    /\ sitemap_xml.status = 404
    /\ robots_txt.status = 0
    /\ extra_pages = <<>>

(* C5: each root_cause_key appears at most once among the findings however  *)
(* many pages trigger the rule, each count equals the number of distinct     *)
(* keys at that severity, and the counts add up to the number of findings.   *)
KeysAt(rootCauses, sev) ==
    {rootCauses[i].key : i \in {j \in 1..Len(rootCauses) : rootCauses[j].severity = sev}}

C5_RootCauseUniqueness ==
    Success =>
        LET rc == RootCauses(CurrentInput)
            counts == response.body.result.counts
        IN /\ \A i, j \in 1..Len(rc) : rc[i].key = rc[j].key => i = j
           /\ counts.p0 = Cardinality(KeysAt(rc, "P0"))
           /\ counts.p1 = Cardinality(KeysAt(rc, "P1"))
           /\ counts.p2 = Cardinality(KeysAt(rc, "P2"))
           /\ counts.p3 = Cardinality(KeysAt(rc, "P3"))
           /\ counts.p0 + counts.p1 + counts.p2 + counts.p3 = Len(rc)

\* two extra pages carry a meta robots noindex, and there is one finding for them
C5_Witness ==
    /\ Success
    /\ Cardinality({i \in 1..Len(extra_pages) :
            HasNameRobots(OrEmpty(extra_pages[i].html))
            /\ HasNoindexText(OrEmpty(extra_pages[i].html))}) >= 2
    /\ ~HasNameRobots(OrEmpty(homepage.html))
    /\ response.body.result.counts.p0 = 1

(* C6: risk_level is RED iff p0 >= 1 or p1 >= 3; otherwise AMBER iff p0 = 0  *)
(* and (1 <= p1 <= 2 or p2 >= 5); otherwise GREEN; p3 has no influence.      *)
C6_RiskLevel ==
    rollup.applied =>
        LET c == rollup.counts
            red == c.p0 >= 1 \/ c.p1 >= 3
            amber == ~red /\ c.p0 = 0 /\ ((1 <= c.p1 /\ c.p1 <= 2) \/ c.p2 >= 5)
        IN /\ (rollup.risk_level = "RED") <=> red
           /\ (rollup.risk_level = "AMBER") <=> amber
           /\ (rollup.risk_level = "GREEN") <=> (~red /\ ~amber)
           /\ \A q \in 0..MaxCount : RiskLevel([c EXCEPT !.p3 = q]) = rollup.risk_level

C6_Witness ==
    /\ rollup.applied
    /\ rollup.counts = [p0 |-> 0, p1 |-> 0, p2 |-> 5, p3 |-> 1]
    /\ rollup.risk_level = "AMBER"

(* C7: with at least one finding, the proof is the first finding when the    *)
(* findings are ranked by severity, ties in the order they were added        *)
(* (robots rule, then the per-page rules in page order, then DUP_TITLES);    *)
(* a ROBOTS_DISALLOW_ALL finding is the proof whenever present; the canned   *)
(* proof, evidence url = domain, appears only with no finding; the proof's   *)
(* severity is P0, P1 or P2.                                                 *)
SeverityRank(sev) == CASE sev = "P0" -> 0 [] sev = "P1" -> 1 [] sev = "P2" -> 2 [] OTHER -> 3

\* the earliest finding among those of the most severe level present
BestFinding(rc) ==
    rc[CHOOSE i \in 1..Len(rc) :
           /\ \A j \in 1..Len(rc) : SeverityRank(rc[i].severity) <= SeverityRank(rc[j].severity)
           /\ \A j \in 1..(i - 1) : SeverityRank(rc[j].severity) > SeverityRank(rc[i].severity)]

IndexOfKey(rc, key) ==
    IF \E i \in 1..Len(rc) : rc[i].key = key
    THEN CHOOSE i \in 1..Len(rc) : rc[i].key = key
    ELSE 0

CannedFinding == Lit("No clear suppressors detected in limited public signals", 55)

C7_ProofSelection ==
    Success =>
        LET rc == RootCauses(CurrentInput)
            proof == response.body.proof
            robotsAt == IndexOfKey(rc, "ROBOTS_DISALLOW_ALL")
            dupAt == IndexOfKey(rc, "DUP_TITLES")
        IN /\ rc # <<>> =>
                  /\ proof.finding = BestFinding(rc).finding
                  /\ proof.evidence.url = BestFinding(rc).evidenceUrl
                  /\ proof.evidence.snippet = BestFinding(rc).snippet
                  /\ proof.severity = BestFinding(rc).severity
           /\ robotsAt # 0 =>
                  /\ robotsAt = 1
                  /\ proof.finding = rc[robotsAt].finding
                  /\ proof.evidence.url = RobotsEvidence
           /\ dupAt # 0 => dupAt = Len(rc)
           /\ (proof.finding = CannedFinding) <=> (rc = <<>>)
           /\ rc = <<>> => proof.evidence.url = response.body.scan_metadata.domain
           /\ proof.severity \in {"P0", "P1", "P2"}

\* a P2 finding was added before the P0 finding that is the proof
C7_Witness ==
    /\ Success
    /\ LET rc == RootCauses(CurrentInput)
       IN /\ Len(rc) >= 2
          /\ rc[1].severity = "P2"
          /\ response.body.proof.severity = "P0"

\* no finding at all: the canned proof
C7_WitnessCanned ==
    /\ Success
    /\ RootCauses(CurrentInput) = <<>>
    /\ response.body.proof.finding = CannedFinding

(* C8: trajectory is null with no baseline and non-null with a baseline      *)
(* whose risk_level is RED, AMBER or GREEN; it is STABLE if from = to, DOWN  *)
(* for RED->AMBER and AMBER->GREEN, UP for GREEN->AMBER, AMBER->RED and      *)
(* GREEN->RED, and STABLE for any other transition (RED->GREEN).             *)
C8_Trajectory ==
    rollup.applied =>
        LET from == rollup.baseline.risk_level
            to == rollup.risk_level
            t == rollup.trajectory
        IN /\ ~rollup.baseline.present => t = "null"
           /\ (rollup.baseline.present /\ from \in {"RED", "AMBER", "GREEN"}) =>
                  /\ t \in {"UP", "STABLE", "DOWN"}
                  /\ from = to => t = "STABLE"
                  /\ <<from, to>> \in {<<"RED", "AMBER">>, <<"AMBER", "GREEN">>} => t = "DOWN"
                  /\ <<from, to>> \in {<<"GREEN", "AMBER">>, <<"AMBER", "RED">>, <<"GREEN", "RED">>}
                         => t = "UP"
                  /\ <<from, to>> = <<"RED", "GREEN">> => t = "STABLE"

C8_Witness ==
    /\ rollup.applied
    /\ rollup.baseline = Baseline("RED")
    /\ rollup.risk_level = "GREEN"
    /\ rollup.trajectory = "STABLE"

(* C9: once the homepage fetch has produced HTML, every combination of       *)
(* outcomes of the later fetches ends in a 200 success report; a later fetch *)
(* that failed is an artifact with status 0, empty headers and no body, and  *)
(* the constraint fetch_failed is recorded.                                  *)
\* the artifact of the k-th fetch, k >= 2
ArtifactOf(k) ==
    IF k = 2 THEN robots_txt ELSE IF k = 3 THEN sitemap_xml ELSE extra_pages[k - 3]

BodyOf(k) == IF k \in {2, 3} THEN ArtifactOf(k).text ELSE ArtifactOf(k).html

C9_SubFetchFailuresDegrade ==
    /\ (Done /\ homepage # Absent /\ HasContent(homepage.status) /\ Truthy(homepage.html))
           => (response.statusCode = 200 /\ "scan_metadata" \in DOMAIN response.body
               /\ "error" \notin DOMAIN response.body)
    /\ \A k \in 2..Len(fetchLog) :
           FetchThrew(fetchLog[k].result) =>
               /\ ArtifactOf(k).status = 0
               /\ ArtifactOf(k).headers = {}
               /\ BodyOf(k) = NullStr
               /\ ArtifactOf(k).url = fetchLog[k].url
               /\ "fetch_failed" \in Range(constraints)

\* robots.txt fails on the network, the sitemap body cannot be read, an extra page fails
\* and another answers 404: the scan still succeeds
C9_Witness ==
    /\ Success
    /\ fetchLog[2].result.err
    /\ fetchLog[3].result.readErr
    /\ \E k \in 4..Len(fetchLog) : FetchThrew(fetchLog[k].result)
    /\ \E k \in 4..Len(fetchLog) : fetchLog[k].result.status = 404

(* C10: when the homepage fetch fails, returns a status outside 200-399 or a *)
(* non-HTML content type, the handler answers 400 INSUFFICIENT_DATA with     *)
(* partial_result null, produces no report and issues no further fetch.      *)
HomepageUnavailable(r) ==
    \/ FetchThrew(r)
    \/ ~(r.status >= 200 /\ r.status <= 399)
    \/ Header(lowerHeaders(r.headers), "content-type")
           \notin {"text/html", "text/html; charset=utf-8", "application/xhtml+xml"}

C10_HomepageMissing ==
    (Len(fetchLog) >= 1 /\ HomepageUnavailable(fetchLog[1].result)) =>
        /\ Failure("INSUFFICIENT_DATA")
        /\ response.body.partial_result = "null"
        /\ "scan_metadata" \notin DOMAIN response.body
        /\ Len(fetchLog) = 1

C10_Witness ==
    /\ Done
    /\ Len(fetchLog) = 1
    /\ fetchLog[1].result.status = 500
    /\ response.statusCode = 400

(* C11: INSUFFICIENT_DATA is emitted only when the homepage fetch failed,    *)
(* returned a status outside 200-399 or a non-HTML content type: a homepage  *)
(* fetched with a status in 200-399 and an HTML/XHTML content type gives a   *)
(* success report with pages_analyzed >= 1, also when its body is empty or   *)
(* becomes empty once comments, scripts and styles are stripped.             *)
C11_HomepageHtmlSucceeds ==
    (Done /\ Len(fetchLog) >= 1) =>
        /\ Failure("INSUFFICIENT_DATA") => HomepageUnavailable(fetchLog[1].result)
        /\ ~HomepageUnavailable(fetchLog[1].result) =>
               (Success /\ response.body.scan_metadata.pages_analyzed >= 1)

(* C12: the body retained in every artifact of a scan (homepage html, extra- *)
(* page html, robots text, sitemap text) has at most 120,000 characters,     *)
(* whatever the length of the raw response body.                             *)
C12_RetainedBodyBound ==
    /\ homepage # Absent => TotalLen(OrEmpty(homepage.html)) <= 120000
    /\ robots_txt # Absent => TotalLen(OrEmpty(robots_txt.text)) <= 120000
    /\ sitemap_xml # Absent => TotalLen(OrEmpty(sitemap_xml.text)) <= 120000
    /\ \A i \in 1..Len(extra_pages) : TotalLen(OrEmpty(extra_pages[i].html)) <= 120000

(* C13: in every success report the proof's evidence.snippet has at most 200 *)
(* characters, proof.finding at most 100, why_it_suppresses and              *)
(* how_to_verify at most 150 each, however long the matched substring is.    *)
C13_ProofFieldBounds ==
    Success =>
        LET proof == response.body.proof
        IN /\ TotalLen(proof.evidence.snippet) <= 200
           /\ TotalLen(proof.finding) <= 100
           /\ TotalLen(proof.why_it_suppresses) <= 150
           /\ TotalLen(proof.how_to_verify) <= 150

(* C14: a fetch follows at most 5 redirects: a response that stands at the   *)
(* end of a chain of more than MAX_REDIRECTS redirects is not reached, and   *)
(* the artifact of that fetch carries no body.                               *)
\* the artifact of the k-th fetch, the homepage included
ArtifactAt(k) == IF k = 1 THEN homepage ELSE ArtifactOf(k)
BodyAt(k) == IF k = 1 THEN homepage.html ELSE BodyOf(k)

C14_RedirectCap ==
    \A k \in 1..Len(fetchLog) :
        fetchLog[k].result.hops > MAX_REDIRECTS =>
            /\ BodyAt(k) = NullStr
            /\ ArtifactAt(k).final_url # fetchLog[k].result.url

(* C15: the 12-second deadline covers the whole fetch, the reading of the    *)
(* body included: a fetch whose headers are not in by the deadline, or whose *)
(* body is still being read when the deadline passes, is aborted and its     *)
(* artifact is the failed one, recorded as fetch_failed.                     *)
\* the fetch operation of the k-th fetch is still running 12 s after it was issued
PastDeadline(r) ==
    /\ ~r.err
    /\ \/ r.headersMs >= 12000
       \/ HasContent(r.status) /\ r.bodyMs >= 12000

C15_DeadlineCoversBody ==
    \A k \in 1..Len(fetchLog) :
        PastDeadline(fetchLog[k].result) =>
            /\ ArtifactAt(k).status = 0
            /\ BodyAt(k) = NullStr
            /\ "fetch_failed" \in Range(constraints)

(* C16: every response is one of two disjoint shapes: HTTP 200 with a report *)
(* holding schema_version, scan_metadata, result, proof,                     *)
(* module_readiness_hint, confidence_note, security_flags and cta            *)
(* (trajectory possibly null), or HTTP 400 with an error document with       *)
(* error = true, error_type INVALID_URL, INSUFFICIENT_DATA or FETCH_FAILED   *)
(* and partial_result null; the status is 400 exactly when the body is an    *)
(* error document.                                                           *)
ReportKeys ==
    {"schema_version", "scan_metadata", "result", "proof", "module_readiness_hint",
     "confidence_note", "security_flags", "cta"}
ErrorKeys == {"schema_version", "error", "error_type", "error_message", "partial_result"}

IsReport(doc) ==
    /\ DOMAIN doc = ReportKeys
    /\ DOMAIN doc.scan_metadata
           = {"domain", "scan_date", "inputs_used", "inputs_missing", "pages_analyzed"}
    /\ DOMAIN doc.result = {"risk_level", "trajectory", "counts", "interpretation"}
    /\ doc.result.trajectory \in {"UP", "STABLE", "DOWN", "null"}
    /\ doc.result.risk_level \in {"RED", "AMBER", "GREEN"}

IsErrorDocument(doc) ==
    /\ DOMAIN doc = ErrorKeys
    /\ doc.error = TRUE
    /\ doc.error_type \in {"INVALID_URL", "INSUFFICIENT_DATA", "FETCH_FAILED"}
    /\ doc.partial_result = "null"

C16_ResponseShapes ==
    /\ ~Done => response = NoResponse
    /\ Done =>
           /\ \/ response.statusCode = 200 /\ IsReport(response.body)
              \/ response.statusCode = 400 /\ IsErrorDocument(response.body)
           /\ (response.statusCode = 400) <=> ("error" \in DOMAIN response.body)
           /\ ReportKeys \cap DOMAIN response.body \subseteq
                  IF response.statusCode = 200 THEN ReportKeys ELSE {"schema_version"}

\* a report with a null trajectory
C16_Witness ==
    /\ Done
    /\ response.statusCode = 200
    /\ IsReport(response.body)
    /\ response.body.result.trajectory = "null"

\* an error document after the homepage fetch
C16_WitnessError ==
    /\ Done
    /\ Len(fetchLog) = 1
    /\ response.statusCode = 400
    /\ IsErrorDocument(response.body)

(* C17: normalization accepts only http and https inputs: an input that      *)
(* carries another scheme (ftp://host/, file:///path) is answered 400        *)
(* INVALID_URL and no fetch is issued; the normalized URL of an accepted     *)
(* input has path "/", no query and no fragment.                             *)
OtherScheme(in) == ~in.blank /\ in.scheme \notin {"", "http", "https", "HTTP", "HTTPS"}

C17_SchemeFilter ==
    pc # "idle" =>
        /\ OtherScheme(UrlInput(request)) => (Failure("INVALID_URL") /\ fetchLog = <<>>)
        /\ originUrl # NoUrl =>
               (originUrl.path = "/" /\ originUrl.query = "" /\ originUrl.hash = "")

(* C18: determinism: two runs of the handler on the same request (URL and    *)
(* baseline), with the same response for every URL fetched, return the same  *)
(* response except for scan_date: the same extra pages in the same order,    *)
(* the same findings, counts, proof and security_flags.                      *)
WithoutDate(resp) ==
    IF resp.statusCode = 200
    THEN [resp EXCEPT !.body.scan_metadata.scan_date = ""]
    ELSE resp

LevelOrder(level) == CASE level = "GREEN" -> 0 [] level = "AMBER" -> 1 [] level = "RED" -> 2

C19_RiskMonotone ==
    rollup.applied =>
        LET c == rollup.counts
            here == LevelOrder(rollup.risk_level)
        IN /\ \A q \in c.p0..MaxCount : LevelOrder(RiskLevel([c EXCEPT !.p0 = q])) >= here
           /\ \A q \in c.p1..MaxCount : LevelOrder(RiskLevel([c EXCEPT !.p1 = q])) >= here
           /\ \A q \in 0..c.p0 : LevelOrder(RiskLevel([c EXCEPT !.p0 = q])) <= here
           /\ \A q \in 0..c.p1 : LevelOrder(RiskLevel([c EXCEPT !.p1 = q])) <= here
           /\ \A q \in 0..MaxCount : RiskLevel([c EXCEPT !.p3 = q]) = RiskLevel(c)

\* AMBER with two P1 findings and some P3 findings: one more P1 makes it RED
C19_Witness ==
    /\ rollup.applied
    /\ rollup.counts = [p0 |-> 0, p1 |-> 2, p2 |-> 0, p3 |-> 3]
    /\ rollup.risk_level = "AMBER"
    /\ RiskLevel([rollup.counts EXCEPT !.p1 = 3]) = "RED"

(* C20: within a request the fetches are issued one at a time in the order   *)
(* homepage, robots.txt, sitemap.xml, then the extra pages in the order of   *)
(* the extra-URL list (nav picks before sitemap picks); no fetch starts      *)
(* before the previous one has completed, none before normalization and the  *)
(* SSRF guard have passed, and the extra_pages artifacts are in the order of *)
(* the extra-URL list however long each fetch takes.                         *)
NavPicks == pickPriorityNavPages(extractHomepageLinks(OrEmpty(homepage.html), base), NavLimit)

C20_SequentialFetches ==
    /\ fetchLog # <<>> =>
           /\ originUrl # NoUrl
           /\ basicSsrfGuards(originUrl) = ""
           /\ fetchLog[1].url = originUrl
    /\ Len(fetchLog) >= 2 => fetchLog[2].url = [base EXCEPT !.path = "/robots.txt"]
    /\ Len(fetchLog) >= 3 => fetchLog[3].url = [base EXCEPT !.path = "/sitemap.xml"]
    /\ \A k \in 4..Len(fetchLog) : fetchLog[k].url = extraUrls[k - 3]
    /\ Len(fetchLog) <= 3 + Len(extraUrls)
    /\ \A k \in 2..Len(fetchLog) : fetchLog[k].start >= fetchLog[k - 1].end
    /\ Len(extra_pages) <= Len(extraUrls)
    /\ \A i \in 1..Len(extra_pages) : extra_pages[i].url = extraUrls[i]
    /\ Success => Len(extra_pages) = Len(extraUrls)
    /\ extraUrls # <<>> =>
           /\ Len(NavPicks) <= Len(extraUrls)
           /\ SubSeq(extraUrls, 1, Len(NavPicks)) = NavPicks

\* nav picks and sitemap picks were fetched, an extra page taking longer than the one after it
C20_Witness ==
    /\ Success
    /\ Len(NavPicks) >= 1
    /\ Len(extra_pages) > Len(NavPicks)
    /\ \E k \in 4..(Len(fetchLog) - 1) :
           Duration(fetchLog[k].result) > Duration(fetchLog[k + 1].result)

(* C21: pickPriorityNavPages returns the first 3 (or fewer) of the links     *)
(* once each is scored by the lowest index of a keyword of [contact, about,  *)
(* services, service, pricing, book, audit, diagnostic] its lower-cased      *)
(* pathname contains (999 if none), the links are sorted by score, then      *)
(* pathname length, then pathname, and root-path links and duplicate URLs    *)
(* are dropped; the result holds no root-path link and no duplicate.         *)
KeywordIndex(path) ==
    LET words == <<"contact", "about", "services", "service", "pricing", "book", "audit",
                   "diagnostic">>
        found == {i \in 0..7 : PathIncludes(path, words[i + 1])}
    IN IF found = {} THEN 999 ELSE CHOOSE i \in found : \A j \in found : i <= j

\* u comes strictly before v in the order of the claim
StrictlyBefore(u, v) ==
    LET pu == PathLower(u.path)
        pv == PathLower(v.path)
    IN \/ KeywordIndex(pu) < KeywordIndex(pv)
       \/ KeywordIndex(pu) = KeywordIndex(pv) /\ PathLen(pu) < PathLen(pv)
       \/ KeywordIndex(pu) = KeywordIndex(pv) /\ PathLen(pu) = PathLen(pv)
              /\ PathRank(pu) < PathRank(pv)

C21_PriorityPick ==
    pick.applied =>
        LET picked == pick.picked
            candidates == {u \in Range(pick.links) : u.path # "/"}
        IN /\ Range(picked) \subseteq candidates
           /\ \A i, j \in 1..Len(picked) : picked[i] = picked[j] => i = j
           /\ Len(picked) = IF Cardinality(candidates) < 3 THEN Cardinality(candidates) ELSE 3
           /\ \A i, j \in 1..Len(picked) : i < j => ~StrictlyBefore(picked[j], picked[i])
           /\ \A u \in candidates \ Range(picked) :
                  \A i \in 1..Len(picked) : ~StrictlyBefore(u, picked[i])

\* four links given against the order, one of them the root
C21_Witness ==
    /\ pick.applied
    /\ pick.links = <<Url("https", ExampleCom, "/team"), Url("https", ExampleCom, "/"),
                      Url("https", ExampleCom, "/about"), Url("https", ExampleCom, "/contact")>>
    /\ pick.picked = <<Url("https", ExampleCom, "/contact"), Url("https", ExampleCom, "/about"),
                       Url("https", ExampleCom, "/team")>>

(* C22: the extra-URL list is the nav picks (at most 3) followed by the      *)
(* sitemap picks (the first 2 non-root same-origin sitemap locations in      *)
(* document order), later duplicates removed; it has at most 5 distinct      *)
(* entries, a scan issues at most 8 fetches, and pages_analyzed is 1 + the   *)
(* number of extra URLs, between 1 and 6.  The sitemap locations are the     *)
(* distinct same-origin <loc> values.                                        *)
\* the indexes of the sitemap text that hold the first mention of a non-root same-origin location
PickableLocs(text) ==
    LET at(i) == makeAbsoluteUrl(text[i].u, base)
        ok(i) == /\ text[i].t = "loc"
                 /\ at(i) # NoUrl
                 /\ Origin(at(i)) = Origin(base)
                 /\ at(i).path # "/"
    IN {i \in 1..Len(text) : ok(i) /\ \A j \in 1..(i - 1) : ~(ok(j) /\ at(j) = at(i))}

\* the locations at the two lowest pickable indexes, in document order
FirstTwoLocs(text) ==
    LET E == PickableLocs(text)
        lowest(S) == CHOOSE i \in S : \A j \in S : i <= j
        first == lowest(E)
        second == lowest(E \ {first})
    IN IF E = {} THEN <<>>
       ELSE IF E \ {first} = {} THEN <<makeAbsoluteUrl(text[first].u, base)>>
       ELSE <<makeAbsoluteUrl(text[first].u, base), makeAbsoluteUrl(text[second].u, base)>>

RECURSIVE Without(_, _)
\* the elements of s that are not in S, in order
Without(s, S) ==
    IF s = <<>> THEN <<>>
    ELSE IF Head(s) \in S THEN Without(Tail(s), S)
    ELSE <<Head(s)>> \o Without(Tail(s), S)

C22_ExtraUrlList ==
    /\ (pc \in {"extras", "done"} /\ sitemap_xml # Absent) =>
           LET locs == IF sitemap_xml.text = NullStr THEN <<>>
                       ELSE FirstTwoLocs(sitemap_xml.text.val)
           IN /\ Len(NavPicks) <= 3
              /\ extraUrls = NavPicks \o Without(locs, Range(NavPicks))
              /\ Len(extraUrls) <= 5
              /\ \A i, j \in 1..Len(extraUrls) : extraUrls[i] = extraUrls[j] => i = j
    /\ Len(fetchLog) <= 8
    /\ Success =>
           /\ response.body.scan_metadata.pages_analyzed = 1 + Len(extraUrls)
           /\ response.body.scan_metadata.pages_analyzed \in 1..6

\* three nav picks and two sitemap picks: eight fetches, six pages analyzed
C22_Witness ==
    /\ Success
    /\ Len(NavPicks) = 3
    /\ Len(extraUrls) = 5
    /\ Len(fetchLog) = 8
    /\ response.body.scan_metadata.pages_analyzed = 6

\* the sitemap names a location twice and then another: both distinct locations are picked
C22_WitnessRepeated ==
    /\ Success
    /\ NavPicks = <<>>
    /\ Len(extraUrls) = 2
    /\ Len(sitemap_xml.text.val) = 3

(* C23: the per-page rules run on the homepage and on the extra pages that   *)
(* have HTML only: an extra page whose fetch failed, whose status is outside *)
(* 200-399 or whose content type is not HTML (html = null) never causes a    *)
(* MISSING_TITLE finding, and so cannot change counts.p2.                    *)
RECURSIVE WithHtml(_)
\* the pages whose html is not null
WithHtml(pages) ==
    IF pages = <<>> THEN <<>>
    ELSE IF Head(pages).html = NullStr THEN WithHtml(Tail(pages))
    ELSE <<Head(pages)>> \o WithHtml(Tail(pages))

C23_OnlyPagesWithHtml ==
    Success =>
        LET rc == RootCauses(CurrentInput)
            input == CurrentInput
            onlyHtml == [input EXCEPT !.artifacts.extra_pages = WithHtml(extra_pages)]
        IN /\ \A i \in 1..Len(rc) :
                  rc[i].key = "MISSING_TITLE" =>
                      \E pg \in Range(<<homepage>> \o WithHtml(extra_pages)) :
                          /\ PageUrl(pg) = rc[i].evidenceUrl
                          /\ ~HasTitle(pg.html.val)
           /\ response.body.result.counts.p2 = Counts(RootCauses(onlyHtml)).p2

(* C24: a DUP_TITLES finding is present exactly when some non-empty trimmed  *)
(* title occurs on two or more distinct pages among the homepage and the     *)
(* extra pages with HTML; a single page reached twice (two fetched URLs with *)
(* the same final URL) does not produce it; it is added at most once; with   *)
(* no other finding it gives p2 = 1, GREEN, and the proof DUP_TITLES at P2.  *)
\* the pages (by final URL) that carry the title t
PagesTitled(t) ==
    LET pages == <<homepage>> \o extra_pages
    IN {PageUrl(pages[i]) : i \in {j \in 1..Len(pages) : TitleOf(pages[j]) = t}}

SharedTitle ==
    \E t \in {TitleOf(pg) : pg \in Range(<<homepage>> \o extra_pages)} :
        t # "" /\ Cardinality(PagesTitled(t)) >= 2

C24_DupTitles ==
    Success =>
        LET rc == RootCauses(CurrentInput)
            dups == {i \in 1..Len(rc) : rc[i].key = "DUP_TITLES"}
        IN /\ (dups # {}) <=> SharedTitle
           /\ Cardinality(dups) <= 1
           /\ (dups # {} /\ Len(rc) = 1) =>
                  /\ response.body.result.counts = [p0 |-> 0, p1 |-> 0, p2 |-> 1, p3 |-> 0]
                  /\ response.body.result.risk_level = "GREEN"
                  /\ response.body.proof.severity = "P2"
                  /\ response.body.proof.finding = rc[1].finding

(* C25: a META_ROBOTS_NOINDEX finding is produced exactly when the HTML of   *)
(* some analyzed page holds a meta robots tag whose own content contains     *)
(* noindex; a page with a meta robots tag without noindex and the text       *)
(* noindex elsewhere does not produce it.                                    *)
MetaSaysNoindex(pg) ==
    \E i \in 1..Len(pg.html.val) :
        pg.html.val[i].t = "meta" /\ IncludesNoindex(pg.html.val[i].s)

C25_MetaNoindex ==
    Success =>
        LET rc == RootCauses(CurrentInput)
        IN (\E i \in 1..Len(rc) : rc[i].key = "META_ROBOTS_NOINDEX")
               <=> (\E pg \in Range(<<homepage>> \o extra_pages) : MetaSaysNoindex(pg))

(* C26, as claimed: security_flags is computed over everything that was      *)
(* fetched: when the body returned for the homepage, robots.txt, sitemap.xml *)
(* or an extra page contains a prompt-injection pattern (a schema-mimicry,   *)
(* an instruction pattern), the report carries the matching flag.            *)
PromptTexts == {"Ignore previous instructions", "system:", "You are now"}
SchemaTexts == {"strict JSON"}
InstructionTexts == {"Analysis Rules"}

Holds(body, texts) == \E i \in 1..Len(body) : body[i].s \in texts

\* the flags that the bodies call for, in the fixed order
FlagsFor(bodies) ==
    (IF \E b \in bodies : Holds(b, PromptTexts) THEN <<"PROMPT_INJECTION_DETECTED">> ELSE <<>>)
    \o (IF \E b \in bodies : Holds(b, SchemaTexts) THEN <<"SCHEMA_MIMICRY_DETECTED">> ELSE <<>>)
    \o (IF \E b \in bodies : Holds(b, InstructionTexts)
        THEN <<"INSTRUCTION_IN_HTML_DETECTED">> ELSE <<>>)

C26_FlagsOverReturnedBodies ==
    Success =>
        response.body.security_flags
            = FlagsFor({fetchLog[k].result.body : k \in 1..Len(fetchLog)})

(* C26, amended: security_flags is computed over what the scan retained:     *)
(* the html of the homepage and of the extra pages (after comments, scripts  *)
(* and styles are stripped and the body is truncated; nothing for a page     *)
(* whose html is null) and the text of robots.txt and sitemap.xml; the list  *)
(* has no duplicates, its order is PROMPT_INJECTION_DETECTED,                *)
(* SCHEMA_MIMICRY_DETECTED, INSTRUCTION_IN_HTML_DETECTED, and the flagged    *)
(* texts do not change risk_level, counts or proof.                          *)
RECURSIVE Scrub(_)
\* a body without its flagged texts
Scrub(body) ==
    IF body = <<>> THEN <<>>
    ELSE IF Head(body).t = "text"
            /\ Head(body).s \in PromptTexts \cup SchemaTexts \cup InstructionTexts
         THEN Scrub(Tail(body))
         ELSE <<Head(body)>> \o Scrub(Tail(body))

ScrubHtml(pg) == IF pg.html = NullStr THEN pg ELSE [pg EXCEPT !.html.val = Scrub(pg.html.val)]

C26_FlagsOverRetainedBodies ==
    Success =>
        LET flags == response.body.security_flags
            scrubbed == [CurrentInput EXCEPT
                            !.artifacts.homepage = ScrubHtml(homepage),
                            !.artifacts.extra_pages =
                                [i \in 1..Len(extra_pages) |-> ScrubHtml(extra_pages[i])]]
            clean == analyzeArtifacts(scrubbed)
        IN /\ flags = FlagsFor({OrEmpty(homepage.html), OrEmpty(robots_txt.text),
                                OrEmpty(sitemap_xml.text)}
                               \cup {OrEmpty(extra_pages[i].html) : i \in 1..Len(extra_pages)})
           /\ \A i, j \in 1..Len(flags) : flags[i] = flags[j] => i = j
           /\ response.body.result.risk_level = clean.risk_level
           /\ response.body.result.counts = clean.counts
           /\ response.body.proof = clean.proof

\* the homepage holds a prompt-injection text and robots.txt an instruction block
C26_Witness ==
    /\ Success
    /\ Holds(OrEmpty(homepage.html), PromptTexts)
    /\ Holds(OrEmpty(robots_txt.text), InstructionTexts)
    /\ response.body.security_flags
           = <<"PROMPT_INJECTION_DETECTED", "INSTRUCTION_IN_HTML_DETECTED">>

(* C27: no fetch of a scan targets a host the SSRF guard rejects: when the   *)
(* homepage fetch is redirected to a final URL with a blocked host           *)
(* (localhost, 127.0.0.1, 0.0.0.0, ::1, *.local, *.internal) or with         *)
(* credentials, robots.txt, sitemap.xml and the extra pages are not          *)
(* requested from that host.                                                 *)
GuardWouldReject(url) == url.creds \/ LoopbackOrInternal(LowerHost(url.host))

C27_NoFetchToBlockedHost ==
    (originUrl # NoUrl /\ ~GuardWouldReject(originUrl)) =>
        \A k \in 2..Len(fetchLog) : ~GuardWouldReject(fetchLog[k].url)

C28_WitnessDown ==
    /\ Success
    /\ request.baseline = Baseline("AMBER")
    /\ response.body.result.counts.p2 = 2
    /\ response.body.result.trajectory = "DOWN"

(* C29: after any sequence of initConsentFoundation() and setConsent(state)  *)
(* calls: nt_consent_granted is true only if the value stored under          *)
(* nt_consent_analytics is "granted"; once a setConsent has been made (the   *)
(* dataLayer holds an nt_consent_update) nt_show_consent_banner is false,    *)
(* also after every later initConsentFoundation; a setConsent(state) leaves  *)
(* the dataLayer it found followed by exactly nt_consent_update then         *)
(* nt_consent_ready, both carrying state; and every call leaves the          *)
(* dataLayer it found as a proper prefix of the new one.                     *)
IsPrefix(s, t) == Len(s) <= Len(t) /\ SubSeq(t, 1, Len(s)) = s

HasUpdate(events) == \E i \in 1..Len(events) : events[i].event = "nt_consent_update"

C29_WitnessInitAfterSet ==
    /\ consent.loaded
    /\ consent.call.op = "initConsentFoundation"
    /\ HasUpdate(consent.before)
    /\ consent.nt_show_consent_banner = Bool(FALSE)
    /\ consent.nt_consent_granted = Bool(TRUE)

====
